---- MODULE Spec2Model ----
(***************************************************************************)
(* genie-tales: the generation-to-artifact pipeline and the video assembly *)
(* stage.  One run is one invocation of the `generate` command:            *)
(*   StoryGeneratorService.generateStory  (src/src/services/llm.ts)        *)
(*   writeStreamToFile / saveBase64ImageToFile (src/src/utils/fileUtils.ts)*)
(*   VideoGenerator.generateVideo         (src/src/services/videoGen.ts)   *)
(* The file system (dirs, files) is shared by all runs of the host.        *)
(***************************************************************************)
EXTENDS Integers, Sequences, FiniteSets, TLC

\* ---------------------------------------------------------------- bounds
MaxPages == 2
MaxPageNo == 2
MaxChunks == 1
MaxPayload == 4

Runs == {1, 2}
\* the values uuidv4() returns
UUIDs == {"u1", "u2", "u3", "u4"}
PageNos == 1..MaxPageNo

VARIABLES
    active,             \* the runs (invocations of the generate command) that exist
    pages,              \* llmStory.pages of the run: the page numbers, in LLM order
    llmImages,          \* llmImages of the run: the pageNumber of each image response
    llmAudios,          \* llmAudios of the run: the pageNumber of each audio response
    streamLen,          \* number of chunks of the audio stream of each audio response
    pc,                 \* where the run stands in generateCommand's action
    failure,            \* the step whose rejection ended the run ("none" while none)
    usedUuids,          \* the values uuidv4() has returned so far
    storyUuid,          \* randomuuid of generateArtifactDirs
    videoUuid,          \* randomuuid of the VideoGenerator constructor
    dirs,               \* directories that exist
    files,              \* path -> content of the files that exist
    imageMap,           \* imageMap of generateStory
    audioMap,           \* audioMap of generateStory
    imgIdx,             \* position of the image loop
    audIdx,             \* position of the audio loop
    writers,            \* per audio response: the fs.WriteStream and the promise returned
    contents,           \* story.contents
    fileListContents,   \* VideoGenerator.fileListContents
    vidIdx,             \* position of generateVideo's page loop
    cmds,               \* the commands handed to execPromise so far
    proc,               \* the external process in flight ("none" when none)
    writesBy,           \* the paths each run has created or written
    hang,               \* the kind of external process that never exits ("none": all exit)
    calls,              \* the collaborators LLMService.generateStory has called
    rejection,          \* the error thrown where the run failed and the one reported
    base64Data,         \* saveBase64ImageToFile: its argument, as a sequence of tokens
    imageWrite,         \* saveBase64ImageToFile: how the call settled, <<>> before it
    options,            \* getStoryParameters: the options commander parsed
    answers,            \* getStoryParameters: what the user answers to the prompts
    storyParams,        \* getStoryParameters: the value returned, <<>> before it
    env,                \* process.env: the variables that select the providers
    languageModel,      \* what generateVercelLanguageModel returned or threw, once called
    imageModel,         \* what generateVercelImageModel returned or threw, once called
    loader              \* the processes that load the logger module: where each stands

vars == <<active, pages, llmImages, llmAudios, streamLen, pc, failure, usedUuids, storyUuid, videoUuid,
          dirs, files, imageMap, audioMap, imgIdx, audIdx, writers, contents,
          fileListContents, vidIdx, cmds, proc, writesBy, hang, calls, rejection,
          base64Data, imageWrite, options, answers, storyParams,
          env, languageModel, imageModel, loader>>

\* the state of the functions that are exercised on their own
unitVars == <<base64Data, imageWrite, options, answers, storyParams,
              env, languageModel, imageModel, loader>>

\* ------------------------------------------------------------ sequences
RECURSIVE SeqsUpTo(_, _)
SeqsUpTo(S, n) ==
    IF n = 0 THEN {<<>>}
    ELSE LET shorter == SeqsUpTo(S, n - 1)
         IN  shorter \cup {Append(s, x) : s \in {t \in shorter : Len(t) = n - 1}, x \in S}

Range(s) == {s[i] : i \in DOMAIN s}

IsPrefix(s, t) == Len(s) <= Len(t) /\ SubSeq(t, 1, Len(s)) = s

\* Array.prototype.join
RECURSIVE Join(_, _)
Join(lines, sep) ==
    IF Len(lines) = 0 THEN <<>>
    ELSE IF Len(lines) = 1 THEN <<lines[1]>>
    ELSE <<lines[1], sep>> \o Join(Tail(lines), sep)

\* Map.prototype.set and Map.prototype.get
MapSet(m, k, v) == [x \in DOMAIN m \cup {k} |-> IF x = k THEN v ELSE m[x]]
Undefined == <<"undefined">>
MapGet(m, k) == IF k \in DOMAIN m THEN m[k] ELSE Undefined
EmptyMap == [x \in {} |-> <<>>]

\* ---------------------------------------------------------------- paths
\* A path is the sequence of its components; path.join appends components.
TmpDir == <<"tmp">>
PathJoin(dir, name) == Append(dir, name)

RECURSIVE PathStr(_)
PathStr(p) ==
    IF p = Undefined THEN "undefined"
    ELSE IF Len(p) = 0 THEN ""
    ELSE "/" \o Head(p) \o PathStr(Tail(p))

Ancestors(p) == {SubSeq(p, 1, n) : n \in 1..Len(p)}
Under(dir, p) == IsPrefix(dir, p)

\* generateArtifactDirs: path.join(os.tmpdir(), 'genie-tales', randomuuid, 'images' | 'audios')
ImageDir(u) == TmpDir \o <<"genie-tales", u, "images">>
AudioDir(u) == TmpDir \o <<"genie-tales", u, "audios">>
\* mutant: the audio files are written next to the images
AudioFilePathInImages(u, p) == PathJoin(ImageDir(u), ToString(p) \o ".mp3")

\* generateStory: path.join(imageDir, `${image.pageNumber}.png`)
ImageFilePath(u, p) == PathJoin(ImageDir(u), ToString(p) \o ".png")
AudioFilePath(u, p) == PathJoin(AudioDir(u), ToString(p) \o ".mp3")

\* mutant: the temporary folder does not carry the uuid
TmpFolderShared(u) == TmpDir \o <<"genie-videos">>

\* VideoGenerator constructor
TmpFolder(u) == TmpDir \o <<"genie-videos", u>>
FileListPath(u) == PathJoin(TmpFolder(u), "file_list.txt")
\* mutant: every clip is written to the destination of the final video
OutputVideoAtDestination(u, p) == <<"out", "story.mp4">>
\* generateVideo: path.join(this.tmpFolder, `page-${content.pageNumber}.mp4`)
OutputVideo(u, p) == PathJoin(TmpFolder(u), "page-" \o ToString(p) \o ".mp4")
VIDEO_NAME == "story.mp4"
\* storyParams.output, the destination directory of the caller
OutputFolder == <<"out">>
FinalVideo == PathJoin(OutputFolder, VIDEO_NAME)

\* -------------------------------------------------------------- payloads
\* the bytes of the image response number i of run r
ImageBytes(r, i) == <<"img" \o ToString(r) \o "." \o ToString(i)>>
\* chunk k of the audio stream of audio response number i of run r
Chunk(r, i, k) == "aud" \o ToString(r) \o "." \o ToString(i) \o "." \o ToString(k)
AudioBytes(r, i) == [k \in 1..streamLen[r][i] |-> Chunk(r, i, k)]

\* fs.write at offset off (0-based) of a file holding c: bytes past the end leave a hole
Hole == "00"
RECURSIVE WriteAt(_, _, _)
WriteAt(c, off, b) ==
    IF off < Len(c) THEN [c EXCEPT ![off + 1] = b]
    ELSE IF off = Len(c) THEN Append(c, b)
    ELSE WriteAt(Append(c, Hole), off, b)

\* ---------------------------------------------------------------- errors
\* A thrown value: name is the class of an Error ("" for a value that is not an
\* Error), page is a page-number field (0: the value has none), stderr is the
\* stderr property child_process.exec puts on its error ("": none).
ErrorValue(name, message) ==
    [name |-> name, message |-> message, page |-> 0, stderr |-> ""]
NoError == ErrorValue("", "")
IsError(e) == e.name # ""
\* the rejection of a file-system call
SystemError(step) == ErrorValue("Error", "EACCES: " \o step)
NoRejection == [page |-> 0, thrown |-> NoError, reported |-> NoError]

\* ------------------------------------------------------------------ Init
NoWriters == [i \in {} |-> [st |-> "created", pos |-> 0, promise |-> "resolved"]]

InitRunAt(rs, at) ==
    /\ active = rs
    /\ usedUuids = {}
    /\ pc = [r \in Runs |-> at]
    /\ failure = [r \in Runs |-> "none"]
    /\ storyUuid = [r \in Runs |-> "none"]
    /\ videoUuid = [r \in Runs |-> "none"]
    /\ dirs = {TmpDir}
    /\ imageMap = [r \in Runs |-> EmptyMap]
    /\ audioMap = [r \in Runs |-> EmptyMap]
    /\ imgIdx = [r \in Runs |-> 1]
    /\ audIdx = [r \in Runs |-> 1]
    /\ writers = [r \in Runs |-> NoWriters]
    /\ contents = [r \in Runs |-> <<>>]
    /\ fileListContents = [r \in Runs |-> <<>>]
    /\ vidIdx = [r \in Runs |-> 1]
    /\ cmds = [r \in Runs |-> <<>>]
    /\ proc = [r \in Runs |-> "none"]
    /\ writesBy = [r \in Runs |-> {}]
    /\ calls = [r \in Runs |-> {}]
    /\ rejection = [r \in Runs |-> NoRejection]

\* the runs stand before `new StoryGeneratorService()`, with their parameters
InitRun(rs) == InitRunAt(rs, "start")

\* One invocation; the LLM's pages and the audio streams are the inputs, and the
\* file of an earlier invocation may stand at the destination.
InitFiles(old) ==
    files = IF old THEN [p \in {FinalVideo} |-> <<"old">>] ELSE [p \in {} |-> <<>>]

\* generateImages and generateAudioForText loop over story.pages and push one
\* response per page, with the page's number
ResponsesFollowPages == llmImages = pages /\ llmAudios = pages

\* every external process exits
NoHang == hang = [r \in Runs |-> "none"]

\* saveBase64ImageToFile and getStoryParameters are not under study
ProvidersIdle == env = <<>> /\ languageModel = <<>> /\ imageModel = <<>>
\* the logger module is loaded already
LoaderIdle == loader = <<>>

UnitsIdle ==
    /\ base64Data = <<>> /\ imageWrite = <<>>
    /\ options = <<>> /\ answers = <<>> /\ storyParams = <<>>
    /\ ProvidersIdle /\ LoaderIdle

Init ==
    /\ InitRun({1})
    /\ NoHang /\ UnitsIdle
    /\ \E ps \in SeqsUpTo(PageNos, MaxPages) \ {<<>>} :
         /\ pages = [r \in Runs |-> IF r = 1 THEN ps ELSE <<1>>]
         /\ streamLen = [r \in Runs |-> [i \in 1..Len(pages[r]) |-> MaxChunks]]
    /\ \E old \in BOOLEAN : InitFiles(old)
    /\ ResponsesFollowPages

\* Two invocations on the same host, each its own process, in any interleaving
\* (one after the other included); both stories have the page number 1, so that
\* the file names of the two runs coincide.
InitTwo ==
    /\ InitRun(Runs)
    /\ NoHang /\ UnitsIdle
    /\ pages = [r \in Runs |-> <<1>>]
    /\ streamLen = [r \in Runs |-> [i \in 1..Len(pages[r]) |-> MaxChunks]]
    /\ InitFiles(FALSE)
    /\ ResponsesFollowPages

\* ------------------------------------------------------------- helpers
Pages(r) == pages[r]
NPages(r) == Len(pages[r])

\* where generateStory goes on once the directories are made, and once the image
\* loop is over: a for...of over an empty array has no iteration
AfterImages(r) == IF Len(llmAudios[r]) = 0 THEN "buildStory" ELSE "audios"
AfterDirs(r) == IF Len(llmImages[r]) = 0 THEN AfterImages(r) ELSE "images"

\* mutant: the rejection is recorded and the action goes on to its end
FailWithSwallowed(r, step, page, thrown, reported) ==
    /\ pc' = [pc EXCEPT ![r] = "done"]
    /\ failure' = [failure EXCEPT ![r] = step]
    /\ rejection' = [rejection EXCEPT ![r] =
                        [page |-> page, thrown |-> thrown, reported |-> reported]]

\* a rejection that reaches generateCommand's catch block: process.exit(1).
\* thrown is the value thrown where the failure arose (page: the page number being
\* worked on there, 0 outside the page loops), reported the value the catch block
\* receives.
FailWith(r, step, page, thrown, reported) ==
    /\ pc' = [pc EXCEPT ![r] = "failed"]
    /\ failure' = [failure EXCEPT ![r] = step]
    /\ rejection' = [rejection EXCEPT ![r] =
                        [page |-> page, thrown |-> thrown, reported |-> reported]]

\* the rejection of a file-system call, which nothing between the call and the
\* catch block touches
Fail(r, step) == FailWith(r, step, 0, SystemError(step), SystemError(step))

\* the process of the run still executes JavaScript
Alive(r) == r \in active /\ pc[r] \notin {"failed", "crashed"}

\* Node runs a callback to completion: the events of the audio streams are delivered
\* only while the run is suspended on an operation that goes through the event loop
\* (a file-system call, an external process) or has nothing left to run.  An await
\* of a promise that is already resolved (writeStreamToFile's) resumes in a
\* microtask, before any stream event.
AwaitingIO == {"ensureDir", "mkdirTmp", "pageExec", "writeManifest", "mergeExec", "done"}
EventLoopTurn(r) == Alive(r) /\ pc[r] \in AwaitingIO

\* mutant: the call returns without having made the directory
MkdirSkipped(dir) == dirs

\* mutant: mkdir without the recursive option, which rejects with EEXIST when the
\* directory is there
MkdirExclusiveOutcomes(dir) == IF dir \in dirs THEN {FALSE} ELSE BOOLEAN

\* whether fs.mkdir(dir, {recursive: true}) / fsextra.ensureDir(dir) resolves: with
\* the recursive option an existing directory, made earlier or by another process
\* in between, is not an error; the call can still reject for a reason of the host
\* (permissions, a full disk)
MkdirOutcomes(dir) == BOOLEAN

\* fs.mkdir(dir, {recursive: true}) and fsextra.ensureDir(dir)
MkdirRecursive(dir) == dirs \cup Ancestors(dir)

\* -------------------------------- StoryGeneratorService.generateStory
\* LLMService.generateStory calls the collaborators in this order
Collaborators == <<"text", "image", "audio">>
\* the collaborators called when the one at position k is the last one called
CallsUpTo(k) == {Collaborators[j] : j \in 1..k}

\* what a collaborator throws: the error of the provider SDK, or a value that is
\* not an Error; neither carries the page number
ProviderError(c) == ErrorValue("APICallError", c \o " provider failed")
NotAnError(c) == ErrorValue("", c \o " aborted")

\* How the collaborators behave, an input of the run: all three answer (at = 0), or
\* the one at position `at` throws; the text generator works on the whole story
\* (page 0), the image and the audio generator loop over story.pages and throw
\* while they work on a page.
LlmOutcomes(r) ==
    {[at |-> 0, page |-> 0, thrown |-> NoError]}
    \cup {[at |-> 1, page |-> 0, thrown |-> e] :
             e \in {ProviderError("text"), NotAnError("text")}}
    \cup UNION {{[at |-> k, page |-> Pages(r)[i], thrown |-> e] :
                    i \in 1..NPages(r),
                    e \in {ProviderError(Collaborators[k]), NotAnError(Collaborators[k])}} :
                 k \in {2, 3}}

\* mutant: the catch block rethrows what it caught
LlmCatchRethrow(e) == e

\* the catch block of LLMService.generateStory:
\* throw new Error(`Failed to generate story: ${error instanceof Error ?
\*                  error.message : 'Unknown error'}`)
LlmCatch(e) ==
    ErrorValue("Error", "Failed to generate story: " \o
                        (IF IsError(e) THEN e.message ELSE "Unknown error"))

\* await this.llmService.generateStory(request): the text, image and audio
\* collaborators answer for every page of llmStory.pages, or one of them throws
\* and the catch block of LLMService.generateStory throws in its turn.
LlmGenerate(r) ==
    /\ r \in active /\ pc[r] = "start"
    /\ \E o \in LlmOutcomes(r) :
         /\ calls' = [calls EXCEPT ![r] =
                        CallsUpTo(IF o.at = 0 THEN Len(Collaborators) ELSE o.at)]
         /\ IF o.at = 0
            THEN pc' = [pc EXCEPT ![r] = "mkdirImages"] /\ UNCHANGED <<failure, rejection>>
            ELSE FailWith(r, "generation", o.page, o.thrown, LlmCatch(o.thrown))
    /\ UNCHANGED <<unitVars, llmImages, llmAudios, hang,
                   active, pages, streamLen, usedUuids, storyUuid, videoUuid, dirs,
                   files, imageMap, audioMap, imgIdx, audIdx, writers, contents,
                   fileListContents, vidIdx, cmds, proc, writesBy>>

\* uuidv4(): a value that no call on the host has returned before (RFC 4122 version
\* 4; the collision of two random 122-bit values is left out).  Which value it is
\* does not matter to any path comparison, so the first unused one stands for it.
Uuidv4 == CHOOSE u \in UUIDs \ usedUuids : TRUE

\* generateArtifactDirs, up to the first mkdir
MkdirImages(r) ==
    /\ r \in active /\ pc[r] = "mkdirImages"
    /\ UUIDs \ usedUuids # {}
    /\ LET u == Uuidv4 IN
         /\ usedUuids' = usedUuids \cup {u}
         /\ storyUuid' = [storyUuid EXCEPT ![r] = u]
         /\ \E ok \in MkdirOutcomes(ImageDir(u)) :
              IF ok
              THEN /\ dirs' = MkdirRecursive(ImageDir(u))
                   /\ writesBy' = [writesBy EXCEPT ![r] = @ \cup {ImageDir(u)}]
                   /\ pc' = [pc EXCEPT ![r] = "mkdirAudios"]
                   /\ UNCHANGED <<failure, rejection>>
              ELSE /\ Fail(r, "workspace")
                   /\ UNCHANGED <<dirs, writesBy>>
    /\ UNCHANGED <<unitVars, llmImages, llmAudios, hang, calls,
                   active, pages, streamLen, videoUuid, files, imageMap, audioMap,
                   imgIdx, audIdx, writers, contents, fileListContents, vidIdx,
                   cmds, proc>>

\* generateArtifactDirs, the second mkdir and the return
MkdirAudios(r) ==
    /\ r \in active /\ pc[r] = "mkdirAudios"
    /\ \E ok \in MkdirOutcomes(AudioDir(storyUuid[r])) :
         IF ok
         THEN /\ dirs' = MkdirRecursive(AudioDir(storyUuid[r]))
              /\ writesBy' = [writesBy EXCEPT ![r] = @ \cup {AudioDir(storyUuid[r])}]
              /\ pc' = [pc EXCEPT ![r] = AfterDirs(r)]
              /\ UNCHANGED <<failure, rejection>>
         ELSE /\ Fail(r, "workspace")
              /\ UNCHANGED <<dirs, writesBy>>
    /\ UNCHANGED <<unitVars, llmImages, llmAudios, hang, calls,
                   active, pages, streamLen, usedUuids, storyUuid, videoUuid, files,
                   imageMap, audioMap, imgIdx, audIdx, writers, contents,
                   fileListContents, vidIdx, cmds, proc>>

\* one iteration of `for (const image of llmImages)`: saveBase64ImageToFile, awaited
SaveImage(r) ==
    /\ r \in active /\ pc[r] = "images"
    /\ LET i == imgIdx[r]
           path == ImageFilePath(storyUuid[r], llmImages[r][i])
       IN  \E ok \in BOOLEAN :
             IF ok
             THEN /\ files' = MapSet(files, path, ImageBytes(r, i))
                  /\ writesBy' = [writesBy EXCEPT ![r] = @ \cup {path}]
                  /\ imageMap' = [imageMap EXCEPT ![r] = MapSet(@, llmImages[r][i], path)]
                  /\ imgIdx' = [imgIdx EXCEPT ![r] = i + 1]
                  /\ pc' = [pc EXCEPT ![r] =
                               IF i = Len(llmImages[r]) THEN AfterImages(r) ELSE "images"]
                  /\ UNCHANGED <<failure, rejection>>
             ELSE /\ FailWith(r, "image", llmImages[r][i],
                               SystemError("image"), SystemError("image"))
                  /\ UNCHANGED <<files, writesBy, imageMap, imgIdx>>
    /\ UNCHANGED <<unitVars, llmImages, llmAudios, hang, calls,
                   active, pages, streamLen, usedUuids, storyUuid, videoUuid, dirs,
                   audioMap, audIdx, writers, contents, fileListContents, vidIdx,
                   cmds, proc>>

\* the state of the promise writeStreamToFile hands to its caller: the function is
\* async and returns nothing, the Promise with the 'finish' and 'error' handlers is
\* built and dropped, so the returned promise is resolved when the function returns
ReturnedPromise == "resolved"

\* one iteration of `for (const audio of llmAudios)`: writeStreamToFile creates the
\* write stream, pipes, registers the handlers and returns; the caller's await resumes
\* at once, sets audioMap and loops
WriteStreamToFile(r) ==
    /\ r \in active /\ pc[r] = "audios"
    /\ LET i == audIdx[r]
           path == AudioFilePath(storyUuid[r], llmAudios[r][i])
       IN  /\ writers' = [writers EXCEPT ![r] =
                 MapSet(@, i, [st |-> "created", pos |-> 0, promise |-> ReturnedPromise])]
           /\ audioMap' = [audioMap EXCEPT ![r] = MapSet(@, llmAudios[r][i], path)]
           /\ audIdx' = [audIdx EXCEPT ![r] = i + 1]
           /\ pc' = [pc EXCEPT ![r] =
                        IF i = Len(llmAudios[r]) THEN "buildStory" ELSE "audios"]
    /\ UNCHANGED <<unitVars, llmImages, llmAudios, hang, calls,
                   active, pages, streamLen, failure, rejection, usedUuids, storyUuid, videoUuid,
                   dirs, files, imageMap, imgIdx, contents, fileListContents, vidIdx,
                   cmds, proc, writesBy>>

\* the write stream of audio response i, whose path is that of its page number
WriterPath(r, i) == AudioFilePath(storyUuid[r], llmAudios[r][i])

\* fs.createWriteStream opens the file asynchronously with flags 'w': create or truncate
WriterOpen(r, i) ==
    /\ EventLoopTurn(r) /\ i \in DOMAIN writers[r] /\ writers[r][i].st = "created"
    /\ writers' = [writers EXCEPT ![r][i].st = "open"]
    /\ files' = MapSet(files, WriterPath(r, i), <<>>)
    /\ writesBy' = [writesBy EXCEPT ![r] = @ \cup {WriterPath(r, i)}]
    /\ UNCHANGED <<unitVars, llmImages, llmAudios, hang, calls,
                   active, pages, streamLen, pc, failure, rejection, usedUuids, storyUuid,
                   videoUuid, dirs, imageMap, audioMap, imgIdx, audIdx, contents,
                   fileListContents, vidIdx, cmds, proc>>

\* stream.pipe(writeStream): the next chunk goes to the file at the stream's own
\* offset.  After the last chunk the source ends, pipe ends the write stream and
\* 'finish' is emitted: resolve() of the dropped Promise has no listener.
WriterChunk(r, i) ==
    /\ EventLoopTurn(r) /\ i \in DOMAIN writers[r] /\ writers[r][i].st = "open"
    /\ writers[r][i].pos < streamLen[r][i]
    /\ LET k == writers[r][i].pos
       IN  /\ files' = MapSet(files, WriterPath(r, i),
                              WriteAt(files[WriterPath(r, i)], k, Chunk(r, i, k + 1)))
           /\ writers' = [writers EXCEPT ![r][i].pos = k + 1,
                                         ![r][i].st = IF k + 1 = streamLen[r][i]
                                                         THEN "finished" ELSE "open"]
    /\ UNCHANGED <<unitVars, llmImages, llmAudios, hang, calls,
                   active, pages, streamLen, pc, failure, rejection, usedUuids, storyUuid,
                   videoUuid, dirs, imageMap, audioMap, imgIdx, audIdx, contents,
                   fileListContents, vidIdx, cmds, proc, writesBy>>

\* the source stream or the write stream emits 'error' before 'finish'.  Nothing
\* awaits the dropped Promise: its reject() is an unhandled rejection, and an 'error'
\* of the source stream has no listener.  Node either terminates the process there
\* or only reports it (--unhandled-rejections), so both outcomes are kept.
StreamError(r, i) ==
    /\ EventLoopTurn(r) /\ i \in DOMAIN writers[r] /\ writers[r][i].st \in {"created", "open"}
    /\ writers' = [writers EXCEPT ![r][i].st = "errored"]
    /\ \E crash \in BOOLEAN :
         pc' = [pc EXCEPT ![r] = IF crash /\ pc[r] # "done" THEN "crashed" ELSE @]
    /\ UNCHANGED <<unitVars, llmImages, llmAudios, hang, calls,
                   active, pages, streamLen, failure, rejection, usedUuids, storyUuid, videoUuid,
                   dirs, files, imageMap, audioMap, imgIdx, audIdx, contents,
                   fileListContents, vidIdx, cmds, proc, writesBy>>

\* mutant: the paths are taken from the response arrays by position
StoryContentsByPosition(r) ==
    [i \in 1..NPages(r) |->
        [pageNumber |-> Pages(r)[i],
         imagePath |-> IF i <= Len(llmImages[r])
                          THEN ImageFilePath(storyUuid[r], llmImages[r][i]) ELSE Undefined,
         audioPath |-> IF i <= Len(llmAudios[r])
                          THEN AudioFilePath(storyUuid[r], llmAudios[r][i]) ELSE Undefined]]

\* llmStory.pages.map(...) and `return story`
StoryContents(r) ==
    [i \in 1..NPages(r) |->
        [pageNumber |-> Pages(r)[i],
         imagePath |-> MapGet(imageMap[r], Pages(r)[i]),
         audioPath |-> MapGet(audioMap[r], Pages(r)[i])]]

ReturnStory(r) ==
    /\ r \in active /\ pc[r] = "buildStory"
    /\ contents' = [contents EXCEPT ![r] = StoryContents(r)]
    /\ pc' = [pc EXCEPT ![r] = "videoCtor"]
    /\ UNCHANGED <<unitVars, llmImages, llmAudios, hang, calls,
                   active, pages, streamLen, failure, rejection, usedUuids, storyUuid, videoUuid,
                   dirs, files, imageMap, audioMap, imgIdx, audIdx, writers,
                   fileListContents, vidIdx, cmds, proc, writesBy>>

\* ------------------------------------------------------- VideoGenerator
\* new VideoGenerator(story, outputFolder)
NewVideoGenerator(r) ==
    /\ r \in active /\ pc[r] = "videoCtor"
    /\ UUIDs \ usedUuids # {}
    /\ LET u == Uuidv4 IN
         /\ usedUuids' = usedUuids \cup {u}
         /\ videoUuid' = [videoUuid EXCEPT ![r] = u]
    /\ fileListContents' = [fileListContents EXCEPT ![r] = <<>>]
    /\ pc' = [pc EXCEPT ![r] = "ensureDir"]
    /\ UNCHANGED <<unitVars, llmImages, llmAudios, hang, calls,
                   active, pages, streamLen, failure, rejection, storyUuid, dirs, files,
                   imageMap, audioMap, imgIdx, audIdx, writers, contents, vidIdx,
                   cmds, proc, writesBy>>

\* await fsextra.ensureDir(this.outputFolder)
EnsureOutputDir(r) ==
    /\ r \in active /\ pc[r] = "ensureDir"
    /\ \E ok \in MkdirOutcomes(OutputFolder) :
         IF ok
         THEN /\ dirs' = MkdirRecursive(OutputFolder)
              /\ pc' = [pc EXCEPT ![r] = "mkdirTmp"]
              /\ UNCHANGED <<failure, rejection>>
         ELSE /\ Fail(r, "workspace")
              /\ UNCHANGED dirs
    /\ UNCHANGED <<unitVars, llmImages, llmAudios, hang, calls,
                   active, pages, streamLen, usedUuids, storyUuid, videoUuid, files,
                   imageMap, audioMap, imgIdx, audIdx, writers, contents,
                   fileListContents, vidIdx, cmds, proc, writesBy>>

\* await fspromise.mkdir(this.tmpFolder, {recursive: true})
MkdirTmp(r) ==
    /\ r \in active /\ pc[r] = "mkdirTmp"
    /\ \E ok \in MkdirOutcomes(TmpFolder(videoUuid[r])) :
         IF ok
         THEN /\ dirs' = MkdirRecursive(TmpFolder(videoUuid[r]))
              /\ writesBy' = [writesBy EXCEPT ![r] = @ \cup {TmpFolder(videoUuid[r])}]
              /\ pc' = [pc EXCEPT ![r] = "pageLoop"]
              /\ UNCHANGED <<failure, rejection>>
         ELSE /\ Fail(r, "workspace")
              /\ UNCHANGED <<dirs, writesBy>>
    /\ UNCHANGED <<unitVars, llmImages, llmAudios, hang, calls,
                   active, pages, streamLen, usedUuids, storyUuid, videoUuid, files,
                   imageMap, audioMap, imgIdx, audIdx, writers, contents,
                   fileListContents, vidIdx, cmds, proc>>

\* `file ${outputVideo}`
FileLine(path) == "file " \o PathStr(path)

\* the template literal of ffmpegCommand; an absent path renders as the word
\* undefined, which ffmpeg takes as a file name of the working directory
FfmpegCommand(image, audio, outputVideo) ==
    "ffmpeg -loop 1 -i " \o PathStr(image) \o " -i " \o PathStr(audio)
      \o " -c:v libx264 -tune stillimage -shortest -pix_fmt yuv420p -y "
      \o PathStr(outputVideo)
\* the template literal of mergeCommand
MergeCommand(list, finalVideo) ==
    "rm -f " \o PathStr(finalVideo) \o " && ffmpeg -f concat -safe 0 -i "
      \o PathStr(list) \o " -c copy " \o PathStr(finalVideo)

\* what the process of a command line wrote to its standard error
Stderr(line) == "stderr of: " \o line

\* mutant: the rejection is replaced by an error that names the step only
ExecErrorOpaque(line) == ErrorValue("Error", "Command failed")

\* The rejection of promisify(exec) for a process that exited non-zero or could
\* not be spawned: an Error whose message is `Command failed: ${cmd}\n${stderr}`
\* and which carries stderr; it has no page field.
ExecError(line) ==
    [name |-> "Error", message |-> "Command failed: " \o line \o "\n" \o Stderr(line),
     page |-> 0, stderr |-> Stderr(line)]

\* the top of the loop body: the line is pushed, the ffmpeg command is built from
\* content.imagePath and content.audioPath and handed to execPromise (found: a
\* file stands at the output path of the command when it is started)
ExecPageStart(r) ==
    /\ r \in active /\ pc[r] = "pageLoop"
    /\ LET content == contents[r][vidIdx[r]]
           outputVideo == OutputVideo(videoUuid[r], content.pageNumber)
       IN  /\ fileListContents' = [fileListContents EXCEPT ![r] =
                                      Append(@, FileLine(outputVideo))]
           /\ cmds' = [cmds EXCEPT ![r] =
                 Append(@, [cmd |-> "assemble", page |-> content.pageNumber,
                            out |-> outputVideo, exit |-> "running",
                            found |-> outputVideo \in DOMAIN files,
                            line |-> FfmpegCommand(content.imagePath,
                                                   content.audioPath, outputVideo)])]
    /\ proc' = [proc EXCEPT ![r] = "assemble"]
    /\ pc' = [pc EXCEPT ![r] = "pageExec"]
    /\ UNCHANGED <<unitVars, llmImages, llmAudios, hang, calls,
                   active, pages, streamLen, failure, rejection, usedUuids, storyUuid, videoUuid,
                   dirs, files, imageMap, audioMap, imgIdx, audIdx, writers, contents,
                   vidIdx, writesBy>>

\* What an ffmpeg process can do: exit 0 with its output written ("ok"), exit
\* non-zero before it opened its output ("fail"), or exit non-zero after it
\* opened its output, which it leaves behind ("partial").  It reads its inputs
\* first, so only "fail" is possible when an input file does not exist.
FfmpegOutcomes(inputs) ==
    IF inputs \subseteq DOMAIN files THEN {"ok", "fail", "partial"} ELSE {"fail"}

ClipBytes(p) == <<"clip" \o ToString(p)>>

\* mutant: the run goes on without the process having exited
ExitedNotAwaited(r, ok) == cmds

\* the exit of the process in flight, recorded with its command
Exited(r, ok) ==
    [cmds EXCEPT ![r][Len(cmds[r])].exit = IF ok THEN "ok" ELSE "failed"]
Partial == <<"partial">>

\* mutant: the rejection is caught inside the loop and the loop goes on
PageExecNextSwallowed(r, ok) ==
    /\ vidIdx' = [vidIdx EXCEPT ![r] = @ + 1]
    /\ pc' = [pc EXCEPT ![r] =
                 IF vidIdx[r] = Len(contents[r]) THEN "writeManifest" ELSE "pageLoop"]
    /\ failure' = [failure EXCEPT ![r] = IF ok THEN @ ELSE "assembly"]
    /\ UNCHANGED rejection

\* mutant: the loop is left after its first iteration
PageExecNextFirstOnly(r, ok) ==
    IF ok
    THEN /\ vidIdx' = [vidIdx EXCEPT ![r] = @ + 1]
         /\ pc' = [pc EXCEPT ![r] = "writeManifest"]
         /\ UNCHANGED <<failure, rejection>>
    ELSE /\ LET last == cmds[r][Len(cmds[r])]
            IN  FailWith(r, "assembly", last.page,
                         ExecError(last.line), ExecError(last.line))
         /\ UNCHANGED vidIdx

\* the awaited execPromise(ffmpegCommand) settles: a rejection leaves the loop and
\* generateVideo, a resolution goes on to the next page or to the manifest
PageExecNext(r, ok) ==
    IF ok
    THEN /\ vidIdx' = [vidIdx EXCEPT ![r] = @ + 1]
         /\ pc' = [pc EXCEPT ![r] =
                      IF vidIdx[r] = Len(contents[r]) THEN "writeManifest" ELSE "pageLoop"]
         /\ UNCHANGED <<failure, rejection>>
    ELSE /\ LET last == cmds[r][Len(cmds[r])]
            IN  FailWith(r, "assembly", last.page,
                         ExecError(last.line), ExecError(last.line))
         /\ UNCHANGED vidIdx

ExecPageExit(r) ==
    /\ r \in active /\ pc[r] = "pageExec"
    /\ hang[r] # "assemble"
    /\ LET content == contents[r][vidIdx[r]]
           outputVideo == OutputVideo(videoUuid[r], content.pageNumber)
       IN  \E o \in FfmpegOutcomes({content.imagePath, content.audioPath}) :
             /\ IF o = "fail"
                THEN UNCHANGED <<files, writesBy>>
                ELSE /\ files' = MapSet(files, outputVideo,
                                   IF o = "ok" THEN ClipBytes(content.pageNumber)
                                               ELSE Partial)
                     /\ writesBy' = [writesBy EXCEPT ![r] = @ \cup {outputVideo}]
             /\ cmds' = Exited(r, o = "ok")
             /\ PageExecNext(r, o = "ok")
    /\ proc' = [proc EXCEPT ![r] = "none"]
    /\ UNCHANGED <<unitVars, llmImages, llmAudios, hang, calls,
                   active, pages, streamLen, usedUuids, storyUuid, videoUuid, dirs,
                   imageMap, audioMap, imgIdx, audIdx, writers, contents,
                   fileListContents>>

\* mutant: every line is written with its own newline
ManifestTextTerminated(lines) == Join(lines, "\n") \o <<"\n">>

\* this.fileListContents.join("\n"), as the sequence of its lines and separators
ManifestText(lines) == Join(lines, "\n")

\* await fspromise.writeFile(this.fileListPath, ...)
WriteManifest(r) ==
    /\ r \in active /\ pc[r] = "writeManifest"
    /\ \E ok \in BOOLEAN :
         IF ok
         THEN /\ files' = MapSet(files, FileListPath(videoUuid[r]),
                                 ManifestText(fileListContents[r]))
              /\ writesBy' = [writesBy EXCEPT ![r] = @ \cup {FileListPath(videoUuid[r])}]
              /\ pc' = [pc EXCEPT ![r] = "merge"]
              /\ UNCHANGED <<failure, rejection>>
         ELSE /\ Fail(r, "manifest")
              /\ UNCHANGED <<files, writesBy>>
    /\ UNCHANGED <<unitVars, llmImages, llmAudios, hang, calls,
                   active, pages, streamLen, usedUuids, storyUuid, videoUuid, dirs,
                   imageMap, audioMap, imgIdx, audIdx, writers, contents,
                   fileListContents, vidIdx, cmds, proc>>

\* the merge command is handed to execPromise
MergeStart(r) ==
    /\ r \in active /\ pc[r] = "merge"
    /\ cmds' = [cmds EXCEPT ![r] =
          Append(@, [cmd |-> "concat", page |-> 0, out |-> FinalVideo,
                     exit |-> "running", found |-> FinalVideo \in DOMAIN files,
                     line |-> MergeCommand(FileListPath(videoUuid[r]), FinalVideo)])]
    /\ proc' = [proc EXCEPT ![r] = "concat"]
    /\ pc' = [pc EXCEPT ![r] = "mergeExec"]
    /\ UNCHANGED <<unitVars, llmImages, llmAudios, hang, calls,
                   active, pages, streamLen, failure, rejection, usedUuids, storyUuid, videoUuid,
                   dirs, files, imageMap, audioMap, imgIdx, audIdx, writers, contents,
                   fileListContents, vidIdx, writesBy>>

\* the concat demuxer reads the list: the directives are the lines of the text
Directives(text) == SelectSeq(text, LAMBDA t : t # "\n")
\* the files a directive names
Named(d) == {f \in DOMAIN files : FileLine(f) = d}
ListedFiles(text) == UNION {Named(d) : d \in Range(Directives(text))}
AllListedExist(text) == \A d \in Range(Directives(text)) : Named(d) # {}

RECURSIVE ConcatBytes(_)
ConcatBytes(ds) ==
    IF Len(ds) = 0 THEN <<>>
    ELSE files[CHOOSE f \in Named(Head(ds)) : TRUE] \o ConcatBytes(Tail(ds))

\* rm -f ${finalVideo}
RmForce(fs, path) == [p \in DOMAIN fs \ {path} |-> fs[p]]

\* `rm -f ${finalVideo} && ffmpeg -f concat -safe 0 -i ${this.fileListPath} -c copy
\* ${finalVideo}` exits: rm can fail, and then ffmpeg is not run ("rmfail")
MergeOutcomes(r) ==
    LET list == FileListPath(videoUuid[r])
    IN  {"rmfail", "fail"} \cup
        (IF list \in DOMAIN files /\ AllListedExist(files[list])
            THEN {"ok", "partial"} ELSE {})

\* mutant: the temporary folder is removed once the video is there
FilesAfterMergeCleaned(r, o) ==
    IF o = "ok"
    THEN LET out == MapSet(files, FinalVideo,
                           ConcatBytes(Directives(files[FileListPath(videoUuid[r])])))
         IN  [p \in {q \in DOMAIN out : ~Under(TmpFolder(videoUuid[r]), q)} |-> out[p]]
    ELSE IF o = "rmfail" THEN files
    ELSE IF o = "fail" THEN RmForce(files, FinalVideo)
    ELSE MapSet(files, FinalVideo, Partial)

\* mutant: the command is ffmpeg alone, without rm and without -y, which does not
\* write over a file that is there
FilesAfterMergeKeepOld(r, o) ==
    IF FinalVideo \in DOMAIN files \/ o \in {"rmfail", "fail"} THEN files
    ELSE MapSet(files, FinalVideo,
                IF o = "partial" THEN Partial
                ELSE ConcatBytes(Directives(files[FileListPath(videoUuid[r])])))

\* the files once the merge command has exited; generateVideo removes nothing
\* afterwards (it logs "Cleaning ${this.tmpFolder}" and returns)
FilesAfterMerge(r, o) ==
    CASE o = "rmfail" -> files
      [] o = "fail" -> RmForce(files, FinalVideo)
      [] o = "partial" -> MapSet(files, FinalVideo, Partial)
      [] o = "ok" ->
           MapSet(files, FinalVideo,
                  ConcatBytes(Directives(files[FileListPath(videoUuid[r])])))

MergeExit(r) ==
    /\ r \in active /\ pc[r] = "mergeExec"
    /\ hang[r] # "concat"
    /\ \E o \in MergeOutcomes(r) :
         /\ files' = FilesAfterMerge(r, o)
         /\ cmds' = Exited(r, o = "ok")
         /\ writesBy' = [writesBy EXCEPT ![r] =
                            IF o \in {"ok", "partial"} THEN @ \cup {FinalVideo} ELSE @]
         /\ IF o = "ok"
            THEN pc' = [pc EXCEPT ![r] = "done"] /\ UNCHANGED <<failure, rejection>>
            ELSE LET line == cmds[r][Len(cmds[r])].line
                 IN  FailWith(r, "concat", 0, ExecError(line), ExecError(line))
    /\ proc' = [proc EXCEPT ![r] = "none"]
    /\ UNCHANGED <<unitVars, llmImages, llmAudios, hang, calls,
                   active, pages, streamLen, usedUuids, storyUuid, videoUuid, dirs,
                   imageMap, audioMap, imgIdx, audIdx, writers, contents,
                   fileListContents, vidIdx>>

\* ------------------------------------------------------------------ Next
Next ==
    \E r \in Runs :
        \/ LlmGenerate(r)
        \/ MkdirImages(r)
        \/ MkdirAudios(r)
        \/ SaveImage(r)
        \/ WriteStreamToFile(r)
        \/ \E i \in 1..MaxPages : WriterOpen(r, i)
        \/ \E i \in 1..MaxPages : WriterChunk(r, i)
        \/ \E i \in 1..MaxPages : StreamError(r, i)
        \/ ReturnStory(r)
        \/ NewVideoGenerator(r)
        \/ EnsureOutputDir(r)
        \/ MkdirTmp(r)
        \/ ExecPageStart(r)
        \/ ExecPageExit(r)
        \/ WriteManifest(r)
        \/ MergeStart(r)
        \/ MergeExit(r)

Spec == Init /\ [][Next]_vars

SpecTwo == InitTwo /\ [][Next]_vars

\* const storyParams = await getStoryParameters(options): the options give the
\* parameters or the user is asked; a prompt can reject (its input is closed)
CollectParameters(r) ==
    /\ r \in active /\ pc[r] = "params"
    /\ \E ok \in BOOLEAN :
         IF ok
         THEN pc' = [pc EXCEPT ![r] = "start"] /\ UNCHANGED <<failure, rejection>>
         ELSE FailWith(r, "parameters", 0, ErrorValue("Error", "prompt closed"),
                       ErrorValue("Error", "prompt closed"))
    /\ UNCHANGED <<unitVars, llmImages, llmAudios, hang, calls,
                   active, pages, streamLen, usedUuids, storyUuid, videoUuid, dirs,
                   files, imageMap, audioMap, imgIdx, audIdx, writers, contents,
                   fileListContents, vidIdx, cmds, proc, writesBy>>

\* One invocation of the generate command from the entry of its action
InitGenerate ==
    /\ InitRunAt({1}, "params")
    /\ NoHang /\ UnitsIdle
    /\ \E ps \in SeqsUpTo(PageNos, MaxPages) \ {<<>>} :
         /\ pages = [r \in Runs |-> IF r = 1 THEN ps ELSE <<1>>]
         /\ streamLen = [r \in Runs |-> [i \in 1..Len(pages[r]) |-> MaxChunks]]
    /\ InitFiles(FALSE)
    /\ ResponsesFollowPages

NextGenerate ==
    \/ \E r \in Runs : CollectParameters(r)
    \/ Next

SpecGenerate == InitGenerate /\ [][NextGenerate]_vars

\* One invocation whose external processes are ffmpeg builds that may never exit
\* (an unreadable network input, a stopped process): the per-page processes, or the
\* concat process, or none.
InitHang ==
    /\ InitRun({1})
    /\ UnitsIdle
    /\ \E k \in {"none", "assemble", "concat"} : hang = [r \in Runs |-> k]
    /\ \E ps \in SeqsUpTo(PageNos, MaxPages) \ {<<>>} :
         /\ pages = [r \in Runs |-> IF r = 1 THEN ps ELSE <<1>>]
         /\ streamLen = [r \in Runs |-> [i \in 1..Len(pages[r]) |-> MaxChunks]]
    /\ InitFiles(FALSE)
    /\ ResponsesFollowPages

SpecHang == InitHang /\ [][Next]_vars

\* StoryGeneratorService.generateStory from the return of
\* this.llmService.generateStory on, for any response arrays of the declared type:
\* a story of pages 1..N, and image and audio responses that carry any page number
\* in any order, several times or not at all.
InitStory ==
    /\ InitRun({1})
    /\ NoHang /\ UnitsIdle
    /\ \E n \in 1..MaxPages :
         pages = [r \in Runs |-> IF r = 1 THEN [i \in 1..n |-> i] ELSE <<1>>]
    /\ \E is \in SeqsUpTo(PageNos, MaxPages) :
         llmImages = [r \in Runs |-> IF r = 1 THEN is ELSE <<1>>]
    /\ \E as \in SeqsUpTo(PageNos, MaxPages) :
         llmAudios = [r \in Runs |-> IF r = 1 THEN as ELSE <<1>>]
    /\ streamLen = [r \in Runs |-> [i \in 1..Len(llmAudios[r]) |-> MaxChunks]]
    /\ InitFiles(FALSE)

\* the collaborators have answered
StoryStart(r) ==
    /\ r \in active /\ pc[r] = "start"
    /\ calls' = [calls EXCEPT ![r] = CallsUpTo(Len(Collaborators))]
    /\ pc' = [pc EXCEPT ![r] = "mkdirImages"]
    /\ UNCHANGED <<unitVars, llmImages, llmAudios, hang,
                   active, pages, streamLen, failure, rejection, usedUuids, storyUuid,
                   videoUuid, dirs, files, imageMap, audioMap, imgIdx, audIdx, writers,
                   contents, fileListContents, vidIdx, cmds, proc, writesBy>>

NextStory ==
    \E r \in Runs :
        \/ StoryStart(r)
        \/ MkdirImages(r)
        \/ MkdirAudios(r)
        \/ SaveImage(r)
        \/ WriteStreamToFile(r)
        \/ ReturnStory(r)

SpecStory == InitStory /\ [][NextStory]_vars

\* generateVideo(story, outputFolder), the exported function, called with a Story
\* of the declared type: pageNumber is any number and audioPath is optional.  The
\* images and the audio files that the story names exist; the working directory
\* may hold a file named `undefined`.
StoryOf(ps, absent) ==
    [i \in 1..Len(ps) |->
        [pageNumber |-> ps[i],
         imagePath |-> ImageFilePath("u1", ps[i]),
         audioPath |-> IF i \in absent THEN Undefined ELSE AudioFilePath("u1", ps[i])]]

StoryFiles(story, cwdFile) ==
    LET named == UNION {{story[i].imagePath, story[i].audioPath} : i \in DOMAIN story}
    IN  [p \in (named \ {Undefined}) \cup (IF cwdFile THEN {Undefined} ELSE {}) |->
            <<"media">>]

InitVideo ==
    /\ active = {1}
    /\ NoHang /\ UnitsIdle
    /\ usedUuids = {"u1"}
    /\ storyUuid = [r \in Runs |-> IF r = 1 THEN "u1" ELSE "none"]
    /\ videoUuid = [r \in Runs |-> "none"]
    /\ pc = [r \in Runs |-> IF r = 1 THEN "videoCtor" ELSE "start"]
    /\ failure = [r \in Runs |-> "none"]
    /\ rejection = [r \in Runs |-> NoRejection]
    /\ calls = [r \in Runs |-> {}]
    /\ dirs = {TmpDir} \cup Ancestors(ImageDir("u1")) \cup Ancestors(AudioDir("u1"))
    /\ imageMap = [r \in Runs |-> EmptyMap]
    /\ audioMap = [r \in Runs |-> EmptyMap]
    /\ imgIdx = [r \in Runs |-> 1]
    /\ audIdx = [r \in Runs |-> 1]
    /\ writers = [r \in Runs |-> NoWriters]
    /\ fileListContents = [r \in Runs |-> <<>>]
    /\ vidIdx = [r \in Runs |-> 1]
    /\ cmds = [r \in Runs |-> <<>>]
    /\ proc = [r \in Runs |-> "none"]
    /\ writesBy = [r \in Runs |-> {}]
    /\ \E ps \in SeqsUpTo(PageNos, MaxPages) \ {<<>>} :
       \E absent \in SUBSET (1..Len(ps)) :
       \E cwdFile \in BOOLEAN :
         /\ pages = [r \in Runs |-> IF r = 1 THEN ps ELSE <<1>>]
         /\ streamLen = [r \in Runs |-> [i \in 1..Len(pages[r]) |-> MaxChunks]]
         /\ contents = [r \in Runs |-> IF r = 1 THEN StoryOf(ps, absent) ELSE <<>>]
         /\ files = StoryFiles(StoryOf(ps, absent), cwdFile)
    /\ ResponsesFollowPages

NextVideo ==
    \E r \in Runs :
        \/ NewVideoGenerator(r)
        \/ EnsureOutputDir(r)
        \/ MkdirTmp(r)
        \/ ExecPageStart(r)
        \/ ExecPageExit(r)
        \/ WriteManifest(r)
        \/ MergeStart(r)
        \/ MergeExit(r)

SpecVideo == InitVideo /\ [][NextVideo]_vars

\* ------------------------------------------------ saveBase64ImageToFile
\* A payload is a sequence of tokens: a character of the base64 alphabet, a
\* character outside it, and the separator ';base64,' as one token (the other two
\* tokens cannot form it).
MARKER == ";base64,"
PayloadTokens == {"Q", "!", MARKER}
Chars(token) ==
    IF token = MARKER THEN <<";", "b", "a", "s", "e", "6", "4", ",">> ELSE <<token>>
RECURSIVE Flatten(_)
Flatten(tokens) ==
    IF tokens = <<>> THEN <<>> ELSE Chars(Head(tokens)) \o Flatten(Tail(tokens))

\* String.prototype.split(separator): the pieces between the separators
RECURSIVE Split(_, _)
Split(str, sep) ==
    IF \A i \in DOMAIN str : str[i] # sep THEN <<str>>
    ELSE LET i == CHOOSE j \in DOMAIN str :
                     str[j] = sep /\ \A k \in 1..(j - 1) : str[k] # sep
         IN  <<SubSeq(str, 1, i - 1)>> \o Split(SubSeq(str, i + 1, Len(str)), sep)
\* Array.prototype.pop of a non-empty array: its last element
Pop(arr) == arr[Len(arr)]
\* a || b on strings: the empty string is falsy
Or(a, b) == IF a = <<>> THEN b ELSE a

\* const base64Image = base64Data.split(';base64,').pop() || base64Data
Base64Image(data) == Or(Pop(Split(data, MARKER)), data)

\* the value of the characters of the base64 alphabet that occur in a payload
Sextet == [c \in {"Q", "a", "b", "e", "s", "4", "6"} |->
              CASE c = "Q" -> 16 [] c = "a" -> 26 [] c = "b" -> 27 [] c = "e" -> 30
                [] c = "s" -> 44 [] c = "4" -> 56 [] c = "6" -> 58]
InAlphabet(c) == c \in DOMAIN Sextet

\* four sextets make three bytes; two or three left over make one or two bytes, a
\* single one left over makes none
RECURSIVE Pack(_)
Pack(v) ==
    IF Len(v) < 2 THEN <<>>
    ELSE LET b1 == v[1] * 4 + (v[2] \div 16)
         IN  IF Len(v) = 2 THEN <<b1>>
             ELSE LET b2 == (v[2] % 16) * 16 + (v[3] \div 4)
                  IN  IF Len(v) = 3 THEN <<b1, b2>>
                      ELSE <<b1, b2, (v[3] % 4) * 64 + v[4]>>
                             \o Pack(SubSeq(v, 5, Len(v)))

\* Buffer.from(string, 'base64'): never throws; the characters outside the
\* alphabet are skipped and the others are decoded
BufferFromBase64(chars) ==
    LET valid == SelectSeq(chars, InAlphabet)
    IN  Pack([i \in 1..Len(valid) |-> Sextet[valid[i]]])

\* the filePath argument
ImageOutputPath == ImageFilePath("u1", 1)

\* saveBase64ImageToFile(base64Data, filePath): strip, decode, await writeFile;
\* only writeFile can reject
SaveBase64ImageToFile ==
    /\ imageWrite = <<>>
    /\ LET base64Image == Base64Image(base64Data)
           imageBuffer == BufferFromBase64(Flatten(base64Image))
       IN  \E ok \in BOOLEAN :
             IF ok THEN /\ files' = MapSet(files, ImageOutputPath, imageBuffer)
                        /\ imageWrite' = <<"resolved">>
                   ELSE /\ UNCHANGED files
                        /\ imageWrite' = <<"rejected">>
    /\ UNCHANGED <<llmImages, llmAudios, hang, calls, rejection, active, pages, streamLen, pc, failure,
                   usedUuids, storyUuid, videoUuid, dirs, imageMap, audioMap, imgIdx,
                   audIdx, writers, contents, fileListContents, vidIdx, cmds, proc,
                   writesBy, base64Data, options, answers, storyParams,
                   env, languageModel, imageModel, loader>>

\* one call of saveBase64ImageToFile with any payload of at most MaxPayload
\* tokens, the directory of filePath being there
InitImage ==
    /\ InitRun({})
    /\ NoHang
    /\ pages = [r \in Runs |-> <<1>>]
    /\ streamLen = [r \in Runs |-> [i \in 1..Len(pages[r]) |-> MaxChunks]]
    /\ InitFiles(FALSE)
    /\ base64Data \in SeqsUpTo(PayloadTokens, MaxPayload)
    /\ imageWrite = <<>>
    /\ options = <<>> /\ answers = <<>> /\ storyParams = <<>>
    /\ ProvidersIdle /\ LoaderIdle
    /\ ResponsesFollowPages

NextImage == SaveBase64ImageToFile

SpecImage == InitImage /\ [][NextImage]_vars

\* --------------------------------------------------- getStoryParameters
\* process.cwd(), the values of Object.values(AgeRange) that occur, and the
\* directories the user may name
Cwd == <<"cwd">>
AgeRanges == {<<"toddler">>, <<"preschool">>}
OutputPaths == {<<"a">>, <<"b">>}

\* The options commander hands to the action: --interactive, --age <age> (absent,
\* a value of AgeRange or another word) and --output <path> (absent or a path);
\* --theme and --length are treated by the code as --age is.
OptionSets ==
    [interactive : BOOLEAN,
     age : {Undefined, <<"toddler">>, <<"teen">>},
     output : {Undefined} \cup OutputPaths]
\* What the user answers when asked: a choice of the age list, and for the output
\* prompt a path or the empty input, which takes the default
AnswerSets == [ageRange : AgeRanges, output : {<<>>} \cup OutputPaths]

\* promptForParameters: output is answers.output, whose default is process.cwd()
PromptForParameters(ans) ==
    [ageRange |-> ans.ageRange,
     output |-> IF ans.output = <<>> THEN Cwd ELSE ans.output]

\* getStoryParameters(options): in interactive mode everything is asked; otherwise
\* an option that is present and valid is taken, a missing or invalid one is
\* asked, and output is process.cwd()
GetStoryParameters(opts, ans) ==
    IF opts.interactive THEN PromptForParameters(ans)
    ELSE [ageRange |-> IF opts.age # Undefined /\ opts.age \in AgeRanges
                          THEN opts.age ELSE ans.ageRange,
          output |-> Cwd]

\* const storyParams = await getStoryParameters(options)
GetStoryParametersCall ==
    /\ options # <<>> /\ storyParams = <<>>
    /\ storyParams' = <<GetStoryParameters(options[1], answers[1])>>
    /\ UNCHANGED <<llmImages, llmAudios, hang, calls, rejection, active, pages, streamLen, pc, failure,
                   usedUuids, storyUuid, videoUuid, dirs, files, imageMap, audioMap,
                   imgIdx, audIdx, writers, contents, fileListContents, vidIdx, cmds,
                   proc, writesBy, base64Data, imageWrite, options, answers,
                   env, languageModel, imageModel, loader>>

\* the generate command is entered with any options; the user stands by to answer
InitCommand ==
    /\ InitRun({})
    /\ NoHang
    /\ pages = [r \in Runs |-> <<1>>]
    /\ streamLen = [r \in Runs |-> [i \in 1..Len(pages[r]) |-> MaxChunks]]
    /\ InitFiles(FALSE)
    /\ base64Data = <<>> /\ imageWrite = <<>>
    /\ \E o \in OptionSets : options = <<o>>
    /\ \E a \in AnswerSets : answers = <<a>>
    /\ storyParams = <<>>
    /\ ProvidersIdle /\ LoaderIdle
    /\ ResponsesFollowPages

NextCommand == GetStoryParametersCall

SpecCommand == InitCommand /\ [][NextCommand]_vars

\* ------------------------------------------------ provider selection
\* An environment variable is unset (undefined) or holds a string.
Unset == "(unset)"
ProviderValues == {Unset, "OPENAI", "ANTHROPIC", "GEMINI", "openai"}
ModelNameValues == {Unset, "", "model-a"}
KeyValues == {Unset, "key"}

\* ProviderConfigSchema.parse(config): z.string() for model and for apiKey
ZodError == ErrorValue("ZodError", "Required")
ProviderConfigSchemaParse(config) ==
    IF config.model = Unset \/ config.apiKey = Unset THEN ZodError ELSE NoError

\* what createOpenAI(...).languageModel(...), createOpenAI(...).image(...) and
\* createAnthropic(...).languageModel(...) return
Model(provider, kind, config) ==
    [name |-> "", provider |-> provider, kind |-> kind,
     modelId |-> config.model, apiKey |-> config.apiKey]
IsModel(m) == ~IsError(m)

\* mutant: every generator takes every provider
CanCreateModelAlways(generator, providerType) == TRUE

\* canCreateModel of OpenAILanguageGenerator, OpenAIImageGenerator ('OPENAI') and of
\* AnthropicLanguageModelGenerator ('ANTHROPIC')
CanCreateModel(generator, providerType) == providerType = generator

\* the apiKey of the generator's config
ApiKey(generator) ==
    IF generator = "OPENAI" THEN env[1].OPENAI_KEY ELSE env[1].ANTHROPIC_KEY

\* genrateLanguageModel / genrateImageModel of a generator: the model, or the
\* ZodError that parse throws
GenrateModel(generator, kind, modelName) ==
    LET config == [model |-> modelName, apiKey |-> ApiKey(generator)]
    IN  IF IsError(ProviderConfigSchemaParse(config))
        THEN ProviderConfigSchemaParse(config)
        ELSE Model(generator, kind, config)

\* GeneratorContext's lists of generators
LanguageModelGenerators == <<"OPENAI", "ANTHROPIC">>
ImageModelGenerators == <<"OPENAI">>

\* Array.prototype.find with the callback of getLanguageModel / getImageModel: the
\* callback builds the model of a generator that can create it, so its error is
\* thrown out of find; a generator that cannot create yields undefined and is
\* passed over.  The result is <<generator>>, <<>> (undefined) or the error.
RECURSIVE Find(_, _, _, _)
Find(generators, kind, providerType, modelName) ==
    IF generators = <<>> THEN <<>>
    ELSE IF CanCreateModel(Head(generators), providerType)
         THEN IF IsError(GenrateModel(Head(generators), kind, modelName))
              THEN GenrateModel(Head(generators), kind, modelName)
              ELSE <<Head(generators)>>
         ELSE Find(Tail(generators), kind, providerType, modelName)

\* GeneratorContext.getLanguageModel and getImageModel
GetModel(generators, kind, providerType, modelName) ==
    LET generator == Find(generators, kind, providerType, modelName)
    IN  IF generator = <<>>
        THEN ErrorValue("Error", "Cannot find " \o kind \o " generator for the provider "
                                  \o providerType \o " and model " \o modelName)
        ELSE IF DOMAIN generator = {1}
             THEN GenrateModel(generator[1], kind, modelName)
             ELSE generator

\* new VercelLanguageModelGenerator().generateLanguageModel()
GenerateVercelLanguageModel ==
    LET provider == env[1].STORY_LLM_PROVIDER
        modelName == env[1].STORY_LLM_MODEL_NAME
    IN  IF provider # "OPENAI" /\ provider # "ANTHROPIC"
        THEN ErrorValue("Error", "Invalid STORY_LLM_PROVIDER: " \o provider
                                  \o ". Only OPENAI and ANTHROPIC supported")
        ELSE IF modelName = Unset \/ modelName = ""
             THEN ErrorValue("Error", "No model defined for the story unde the env STORY_LLM_MODEL_NAME")
             ELSE GetModel(LanguageModelGenerators, "language", provider, modelName)

\* new VercelImageModelGenerator().generateImageModel()
GenerateVercelImageModel ==
    LET provider == env[1].ILLUSTRATION_LLM_PROVIDER
        modelName == env[1].ILLUSTRATION_LLM_MODEL_NAME
    IN  IF provider # "OPENAI"
        THEN ErrorValue("Error", "Invalid ILLUSTRATION_LLM_PROVIDER: " \o provider
                                  \o ". Only OPENAI supported")
        ELSE IF modelName = Unset \/ modelName = ""
             THEN ErrorValue("Error", "No model defined for the story unde the env STORY_LLM_MODEL_NAME")
             ELSE GetModel(ImageModelGenerators, "image", provider, modelName)

\* a call of generateVercelLanguageModel()
GenerateVercelLanguageModelCall ==
    /\ env # <<>> /\ languageModel = <<>>
    /\ languageModel' = <<GenerateVercelLanguageModel>>
    /\ UNCHANGED <<llmImages, llmAudios, hang, calls, rejection, active, pages, streamLen,
                   pc, failure, usedUuids, storyUuid, videoUuid, dirs, files, imageMap,
                   audioMap, imgIdx, audIdx, writers, contents, fileListContents, vidIdx,
                   cmds, proc, writesBy, base64Data, imageWrite, options, answers,
                   storyParams, env, imageModel, loader>>

\* a call of generateVercelImageModel()
GenerateVercelImageModelCall ==
    /\ env # <<>> /\ imageModel = <<>>
    /\ imageModel' = <<GenerateVercelImageModel>>
    /\ UNCHANGED <<llmImages, llmAudios, hang, calls, rejection, active, pages, streamLen,
                   pc, failure, usedUuids, storyUuid, videoUuid, dirs, files, imageMap,
                   audioMap, imgIdx, audIdx, writers, contents, fileListContents, vidIdx,
                   cmds, proc, writesBy, base64Data, imageWrite, options, answers,
                   storyParams, env, languageModel, loader>>

\* the two functions are called in a process with any environment
InitProvider ==
    /\ InitRun({})
    /\ NoHang
    /\ pages = [r \in Runs |-> <<1>>]
    /\ streamLen = [r \in Runs |-> <<MaxChunks>>]
    /\ InitFiles(FALSE)
    /\ ResponsesFollowPages
    /\ base64Data = <<>> /\ imageWrite = <<>>
    /\ options = <<>> /\ answers = <<>> /\ storyParams = <<>>
    /\ \E sp, ip \in ProviderValues, sm, im \in ModelNameValues, ok, ak \in KeyValues :
         env = <<[STORY_LLM_PROVIDER |-> sp, STORY_LLM_MODEL_NAME |-> sm,
                  ILLUSTRATION_LLM_PROVIDER |-> ip, ILLUSTRATION_LLM_MODEL_NAME |-> im,
                  OPENAI_KEY |-> ok, ANTHROPIC_KEY |-> ak]>>
    /\ languageModel = <<>> /\ imageModel = <<>>
    /\ LoaderIdle

NextProvider == GenerateVercelLanguageModelCall \/ GenerateVercelImageModelCall

SpecProvider == InitProvider /\ [][NextProvider]_vars

\* ------------------------------------------------------- the logger module
\* const logDir = 'logs', resolved against the working directory of the process
LogDir == PathJoin(Cwd, "logs")
LogFile == PathJoin(LogDir, "app.log")

\* fs.mkdirSync(dir) without the recursive option: it throws EEXIST when something
\* stands at the path, ENOENT when the parent is missing, and can throw for a
\* reason of the host; otherwise it makes the directory
MkdirSyncOutcomes(dir) ==
    IF dir \in dirs THEN {"EEXIST"}
    ELSE IF SubSeq(dir, 1, Len(dir) - 1) \notin dirs THEN {"ENOENT"}
    ELSE {"ok", "EACCES"}

\* dotenv.config(): the variables of .env are in process.env from here on
DotenvConfig(p) ==
    /\ loader # <<>> /\ loader[p].pc = "dotenv"
    /\ loader' = [loader EXCEPT ![p].pc = "existsSync"]
    /\ UNCHANGED <<llmImages, llmAudios, hang, calls, rejection, active, pages, streamLen,
                   pc, failure, usedUuids, storyUuid, videoUuid, dirs, files, imageMap,
                   audioMap, imgIdx, audIdx, writers, contents, fileListContents, vidIdx,
                   cmds, proc, writesBy, base64Data, imageWrite, options, answers,
                   storyParams, env, languageModel, imageModel>>

\* if (!fs.existsSync(logDir)): the answer of the file system at this moment
ExistsSync(p) ==
    /\ loader # <<>> /\ loader[p].pc = "existsSync"
    /\ loader' = [loader EXCEPT ![p].pc = IF LogDir \in dirs THEN "transports"
                                                            ELSE "mkdirSync"]
    /\ UNCHANGED <<llmImages, llmAudios, hang, calls, rejection, active, pages, streamLen,
                   pc, failure, usedUuids, storyUuid, videoUuid, dirs, files, imageMap,
                   audioMap, imgIdx, audIdx, writers, contents, fileListContents, vidIdx,
                   cmds, proc, writesBy, base64Data, imageWrite, options, answers,
                   storyParams, env, languageModel, imageModel>>

\* fs.mkdirSync(logDir): a throw at the top level of the module ends the load
MkdirSync(p) ==
    /\ loader # <<>> /\ loader[p].pc = "mkdirSync"
    /\ \E o \in MkdirSyncOutcomes(LogDir) :
         IF o = "ok"
         THEN /\ dirs' = dirs \cup {LogDir}
              /\ loader' = [loader EXCEPT ![p].pc = "transports"]
         ELSE /\ UNCHANGED dirs
              /\ loader' = [loader EXCEPT ![p].pc = "threw",
                                          ![p].error = ErrorValue("Error", o)]
    /\ UNCHANGED <<llmImages, llmAudios, hang, calls, rejection, active, pages, streamLen,
                   pc, failure, usedUuids, storyUuid, videoUuid, files, imageMap,
                   audioMap, imgIdx, audIdx, writers, contents, fileListContents, vidIdx,
                   cmds, proc, writesBy, base64Data, imageWrite, options, answers,
                   storyParams, env, languageModel, imageModel>>

\* the File transport is pushed when LOG_TO_FILE is the string 'true'
PushTransports(p) ==
    /\ loader # <<>> /\ loader[p].pc = "transports"
    /\ loader' = [loader EXCEPT ![p].pc = "createLogger",
                                ![p].transports =
                                    IF loader[p].LOG_TO_FILE = "true"
                                    THEN <<LogFile>> ELSE <<>>]
    /\ UNCHANGED <<llmImages, llmAudios, hang, calls, rejection, active, pages, streamLen,
                   pc, failure, usedUuids, storyUuid, videoUuid, dirs, files, imageMap,
                   audioMap, imgIdx, audIdx, writers, contents, fileListContents, vidIdx,
                   cmds, proc, writesBy, base64Data, imageWrite, options, answers,
                   storyParams, env, languageModel, imageModel>>

\* winston.createLogger({...}) and the export
CreateLogger(p) ==
    /\ loader # <<>> /\ loader[p].pc = "createLogger"
    /\ loader' = [loader EXCEPT ![p].pc = "loaded"]
    /\ UNCHANGED <<llmImages, llmAudios, hang, calls, rejection, active, pages, streamLen,
                   pc, failure, usedUuids, storyUuid, videoUuid, dirs, files, imageMap,
                   audioMap, imgIdx, audIdx, writers, contents, fileListContents, vidIdx,
                   cmds, proc, writesBy, base64Data, imageWrite, options, answers,
                   storyParams, env, languageModel, imageModel>>

\* the working directory, with or without the logs directory
LoggerDirs(present) == {TmpDir, Cwd} \cup (IF present THEN {LogDir} ELSE {})

\* Two processes started in the same working directory load the module, in any
\* interleaving of their file-system calls; the logs directory may be there from
\* an earlier start.
LogToFileValues == {Unset, "true", "false"}
InitLogger ==
    /\ active = {}
    /\ usedUuids = {}
    /\ pc = [r \in Runs |-> "start"]
    /\ failure = [r \in Runs |-> "none"]
    /\ storyUuid = [r \in Runs |-> "none"]
    /\ videoUuid = [r \in Runs |-> "none"]
    /\ \E present \in BOOLEAN : dirs = LoggerDirs(present)
    /\ imageMap = [r \in Runs |-> EmptyMap]
    /\ audioMap = [r \in Runs |-> EmptyMap]
    /\ imgIdx = [r \in Runs |-> 1]
    /\ audIdx = [r \in Runs |-> 1]
    /\ writers = [r \in Runs |-> NoWriters]
    /\ contents = [r \in Runs |-> <<>>]
    /\ fileListContents = [r \in Runs |-> <<>>]
    /\ vidIdx = [r \in Runs |-> 1]
    /\ cmds = [r \in Runs |-> <<>>]
    /\ proc = [r \in Runs |-> "none"]
    /\ writesBy = [r \in Runs |-> {}]
    /\ calls = [r \in Runs |-> {}]
    /\ rejection = [r \in Runs |-> NoRejection]
    /\ NoHang
    /\ pages = [r \in Runs |-> <<1>>]
    /\ streamLen = [r \in Runs |-> <<MaxChunks>>]
    /\ InitFiles(FALSE)
    /\ ResponsesFollowPages
    /\ base64Data = <<>> /\ imageWrite = <<>>
    /\ options = <<>> /\ answers = <<>> /\ storyParams = <<>>
    /\ ProvidersIdle
    /\ \E v \in [Runs -> LogToFileValues] :
         loader = [p \in Runs |-> [pc |-> "dotenv", LOG_TO_FILE |-> v[p],
                                   error |-> NoError, transports |-> <<>>]]

NextLogger ==
    \E p \in Runs :
        \/ DotenvConfig(p)
        \/ ExistsSync(p)
        \/ MkdirSync(p)
        \/ PushTransports(p)
        \/ CreateLogger(p)

SpecLogger == InitLogger /\ [][NextLogger]_vars

\* ================================================================ claims
PageNumbers(r) == [i \in 1..Len(contents[r]) |-> contents[r][i].pageNumber]
\* the page numbers are exactly 1..N, each once
NumberedOneToN(ps) == Len(ps) >= 1 /\ Range(ps) = 1..Len(ps)
ManifestWritten(r) ==
    videoUuid[r] # "none" /\ FileListPath(videoUuid[r]) \in DOMAIN files
ManifestOf(r) == files[FileListPath(videoUuid[r])]
ConcatInvoked(r) == \E k \in DOMAIN cmds[r] : cmds[r][k].cmd = "concat"
WroteFinal(r) == FinalVideo \in writesBy[r]

\* C1: for a story whose pages are 1..N in any order, the clip paths in the
\* manifest file (and so the clips the concat command reads) are in ascending
\* page-number order.
C1_ManifestSorted ==
    \A r \in active :
        (ManifestWritten(r) /\ NumberedOneToN(PageNumbers(r)))
        => Directives(ManifestOf(r)) =
             [n \in 1..Len(contents[r]) |-> FileLine(OutputVideo(videoUuid[r], n))]

\* C2: when the page numbers of the clips are not exactly 1..N (a duplicate or a
\* gap), the run ends with a ManifestError: the concat command is never invoked and
\* the run writes no final output file.
C2_BadPagesNeverConcatenated ==
    \A r \in active :
        (Len(contents[r]) >= 1 /\ ~NumberedOneToN(PageNumbers(r)))
        => /\ ~ConcatInvoked(r)
           /\ pc[r] \notin {"merge", "mergeExec", "done"}
           /\ ~WroteFinal(r)

\* C3: a run writes a final output file only if every page-level step (the
\* materialization and the clip assembly of every page) and the concatenation
\* succeeded; a run in which one of them fails writes no final output file.
DrainFailed(r) == \E i \in DOMAIN writers[r] : writers[r][i].st = "errored"
AllClipsAssembled(r) ==
    /\ Len(contents[r]) >= 1
    /\ \A i \in 1..Len(contents[r]) :
         \E k \in DOMAIN cmds[r] :
            /\ cmds[r][k].cmd = "assemble" /\ cmds[r][k].exit = "ok"
            /\ cmds[r][k].page = contents[r][i].pageNumber
ConcatSucceeded(r) ==
    \E k \in DOMAIN cmds[r] : cmds[r][k].cmd = "concat" /\ cmds[r][k].exit = "ok"
C3_AllOrNothing ==
    \A r \in active :
        WroteFinal(r) =>
            /\ AllClipsAssembled(r) /\ ConcatSucceeded(r)
            /\ failure[r] = "none" /\ ~DrainFailed(r)

\* C4: when the audio stream of a page raises an error while it is drained, the
\* promise of writeStreamToFile rejects, the run does not reach DONE and writes no
\* final output file.
C4_DrainErrorFailsRun ==
    \A r \in active : \A i \in DOMAIN writers[r] :
        writers[r][i].st = "errored"
        => /\ writers[r][i].promise = "rejected"
           /\ pc[r] # "done"
           /\ ~WroteFinal(r)

\* C5: the promise returned by writeStreamToFile is resolved only once 'finish' was
\* emitted, that is once every chunk of the stream is in the file.
C5_ResolvedOnlyAfterFinish ==
    \A r \in active : \A i \in DOMAIN writers[r] :
        writers[r][i].promise = "resolved"
        => /\ writers[r][i].st = "finished"
           /\ writers[r][i].pos = streamLen[r][i]

\* C6 as stated: the manifest is one line `file <absolute path>` per clip, every
\* line, the last one included, terminated by a newline.
ClipLine(r, i) == FileLine(OutputVideo(videoUuid[r], contents[r][i].pageNumber))
C6_EveryLineTerminated ==
    \A r \in active :
        ManifestWritten(r) =>
            LET t == ManifestOf(r)
                n == Len(contents[r])
            IN  /\ Len(t) = 2 * n
                /\ \A i \in 1..n : t[2 * i - 1] = ClipLine(r, i) /\ t[2 * i] = "\n"

\* C6 amended: the manifest is one line `file <absolute path>` per clip, in the
\* order of story.contents, with a newline between two lines and none after the
\* last line.
C6_LinesJoinedByNewline ==
    \A r \in active :
        ManifestWritten(r) =>
            LET t == ManifestOf(r)
                n == Len(contents[r])
            IN  /\ Len(t) = 2 * n - 1
                /\ \A i \in 1..n :
                     /\ t[2 * i - 1] = ClipLine(r, i)
                     /\ Under(TmpDir, OutputVideo(videoUuid[r], contents[r][i].pageNumber))
                /\ \A i \in 1..(n - 1) : t[2 * i] = "\n"

C6_Witness ==
    \E r \in active : ManifestWritten(r) /\ Len(contents[r]) >= 2

\* C7: when the transcoder command of a page is rejected, the run fails there: no
\* command is started after it (no later page, no concatenation), the manifest is
\* not written and generateVideo rejects.
C7_AssemblyFailureEndsRun ==
    \A r \in active : \A k \in DOMAIN cmds[r] :
        (cmds[r][k].cmd = "assemble" /\ cmds[r][k].exit = "failed")
        => /\ k = Len(cmds[r])
           /\ cmds[r][k].page = contents[r][k].pageNumber
           /\ \A j \in 1..k : cmds[r][j].cmd = "assemble"
           /\ pc[r] = "failed" /\ failure[r] = "assembly"
           /\ ~ManifestWritten(r)
           /\ ~WroteFinal(r)

C7_Witness ==
    \E r \in active :
        /\ pc[r] = "failed" /\ failure[r] = "assembly"
        /\ Len(cmds[r]) < Len(contents[r])
        /\ cmds[r][Len(cmds[r])].exit = "failed"

\* C8 as stated: no step deletes or truncates an already-written artifact of the
\* run workspace: a file under the temporary root stays, and its content is only
\* ever extended.
IsArtifact(p) == Under(TmpDir, p)
C8_NeverDeletedNorTruncated ==
    [][\A p \in DOMAIN files :
          IsArtifact(p) => p \in DOMAIN files' /\ IsPrefix(files[p], files'[p])]_vars

\* the artifacts of run r that carry page number n
PageArtifacts(r, n) ==
    (IF storyUuid[r] = "none" THEN {}
     ELSE {ImageFilePath(storyUuid[r], n), AudioFilePath(storyUuid[r], n)})
    \cup (IF videoUuid[r] = "none" THEN {} ELSE {OutputVideo(videoUuid[r], n)})
DuplicatePage(r, n) ==
    \E i, j \in 1..NPages(r) : i < j /\ Pages(r)[i] = n /\ Pages(r)[j] = n

\* C8 amended: no step deletes an artifact or a directory of the run workspace,
\* and the content of an already-written artifact is replaced only by a later
\* write for the same page number of the same run (a story with a duplicate page
\* number); so every artifact a run has written exists in every later state, after
\* a failed run as after a successful one.
C8_ArtifactsKept ==
    [][/\ dirs \subseteq dirs'
       /\ \A p \in DOMAIN files :
            IsArtifact(p) =>
              /\ p \in DOMAIN files'
              /\ \/ IsPrefix(files[p], files'[p])
                 \/ \E r \in active : \E n \in PageNos :
                       DuplicatePage(r, n) /\ p \in PageArtifacts(r, n)
       /\ \A r \in active : \A p \in writesBy'[r] :
            IsArtifact(p) => p \in DOMAIN files' \/ p \in dirs']_vars

C8_Witness ==
    \E r \in active :
        /\ pc[r] = "failed" /\ failure[r] = "concat"
        /\ ManifestWritten(r)
        /\ \A i \in 1..Len(contents[r]) :
             /\ contents[r][i].imagePath \in DOMAIN files
             /\ OutputVideo(videoUuid[r], contents[r][i].pageNumber) \in DOMAIN files

\* C9: when two payloads of a run carry the same page number, both are written to
\* the same path; once the second is written the file holds the second payload's
\* bytes, and the path recorded for the page is that path.
LastWithPage(r, j) == \A k \in 1..NPages(r) : Pages(r)[k] = Pages(r)[j] => k <= j
C9_SecondPayloadWins ==
    \A r \in active : \A i, j \in 1..NPages(r) :
        (i < j /\ Pages(r)[i] = Pages(r)[j] /\ LastWithPage(r, j)) =>
            LET n == Pages(r)[j]
                img == ImageFilePath(storyUuid[r], n)
                aud == AudioFilePath(storyUuid[r], n)
            IN  /\ imgIdx[r] > j =>
                     files[img] = ImageBytes(r, j) /\ imageMap[r][n] = img
                /\ (\A k \in 1..NPages(r) :
                       Pages(r)[k] = n =>
                          k \in DOMAIN writers[r] /\ writers[r][k].st = "finished")
                   => files[aud] = AudioBytes(r, j) /\ audioMap[r][n] = aud

\* C10: two invocations use distinct workspace directories: the directories one
\* run made for itself (images, audios, the video temporary folder) are not those
\* of the other run, and nothing the other run creates or writes lies in them.
WorkspaceDirs(r) ==
    (IF storyUuid[r] = "none" THEN {}
     ELSE {ImageDir(storyUuid[r]), AudioDir(storyUuid[r])})
    \cup (IF videoUuid[r] = "none" THEN {} ELSE {TmpFolder(videoUuid[r])})
C10_WorkspacesDisjoint ==
    \A r1, r2 \in active :
        r1 # r2 =>
            \A d \in WorkspaceDirs(r1) :
                /\ d \notin WorkspaceDirs(r2)
                /\ \A p \in writesBy[r2] : ~Under(d, p)

C10_Witness ==
    \A r \in Runs :
        /\ r \in active /\ pc[r] = "done"
        /\ \E p \in writesBy[r] : Under(TmpFolder(videoUuid[r]), p) /\ p \in DOMAIN files
        /\ \E p \in writesBy[r] : Under(ImageDir(storyUuid[r]), p) /\ p \in DOMAIN files

\* the page artifacts of run r: the files it wrote under the temporary root, the
\* manifest aside
PageArtifactFiles(r) ==
    {p \in writesBy[r] : p \in DOMAIN files /\ IsArtifact(p)
                           /\ p[Len(p)] # "file_list.txt"}

\* C11 as stated: all page artifacts of a run lie under one run-scoped root
\* {tempRoot}/{runId}: images/{p}.png, audios/{p}.mp3 and clips/page-{p}.mp4, with
\* the same runId for the three.
C11_SingleRunRoot ==
    \A r \in active :
        \E name \in {"genie-tales", "genie-videos"} : \E id \in UUIDs :
            LET root == TmpDir \o <<name, id>>
            IN  \A p \in PageArtifactFiles(r) : \E n \in PageNos :
                    p \in {root \o <<"images", ToString(n) \o ".png">>,
                           root \o <<"audios", ToString(n) \o ".mp3">>,
                           root \o <<"clips", "page-" \o ToString(n) \o ".mp4">>}

\* C11 amended: the images and the audio files of a run lie under
\* {tmpdir}/genie-tales/{storyUuid} as images/{p}.png and audios/{p}.mp3; its clips
\* lie under a second root, {tmpdir}/genie-videos/{videoUuid}, as page-{p}.mp4
\* directly in it, and videoUuid is another value than storyUuid.  The paths
\* recorded in story.contents and the output of every clip command are these.
C11_TwoRunRoots ==
    \A r \in active :
        LET story == <<"tmp", "genie-tales", storyUuid[r]>>
            video == <<"tmp", "genie-videos", videoUuid[r]>>
            image(n) == story \o <<"images", ToString(n) \o ".png">>
            audio(n) == story \o <<"audios", ToString(n) \o ".mp3">>
            clip(n) == video \o <<"page-" \o ToString(n) \o ".mp4">>
        IN  /\ \A p \in PageArtifactFiles(r) : \E n \in Range(Pages(r)) :
                  p \in {image(n), audio(n), clip(n)}
            /\ videoUuid[r] # "none" => videoUuid[r] # storyUuid[r]
            /\ \A i \in DOMAIN contents[r] :
                  /\ contents[r][i].imagePath = image(contents[r][i].pageNumber)
                  /\ contents[r][i].audioPath = audio(contents[r][i].pageNumber)
            /\ \A k \in DOMAIN cmds[r] :
                  cmds[r][k].cmd = "assemble" => cmds[r][k].out = clip(cmds[r][k].page)

C11_Witness ==
    \E r \in active :
        /\ pc[r] = "done"
        /\ \A i \in DOMAIN contents[r] :
              /\ contents[r][i].imagePath \in PageArtifactFiles(r)
              /\ contents[r][i].audioPath \in PageArtifactFiles(r)
              /\ OutputVideo(videoUuid[r], contents[r][i].pageNumber)
                    \in PageArtifactFiles(r)

\* generateArtifactDirs rejected: one of its two mkdir calls failed
ArtifactDirsFailed(r) ==
    pc[r] = "failed" /\ failure[r] = "workspace" /\ videoUuid[r] = "none"

\* C12: the workspace directories are created before any generation work: no
\* collaborator (text, image or audio generator) is called before images/ and
\* audios/ exist, and a run whose directory creation fails has called none.
C12_WorkspaceBeforeGeneration ==
    \A r \in active :
        /\ calls[r] # {} =>
              /\ storyUuid[r] # "none"
              /\ {ImageDir(storyUuid[r]), AudioDir(storyUuid[r])} \subseteq dirs
        /\ ArtifactDirsFailed(r) => calls[r] = {}

\* the run is suspended on execPromise
WaitingOnProcess(r) == pc[r] \in {"pageExec", "mergeExec"}

\* C13: the run never waits forever on an external process: whenever it is
\* suspended on one, the wait can end, because the process exits or because the
\* timeout terminates it and the run fails.
C13_NoWaitForever ==
    \A r \in active :
        WaitingOnProcess(r) => ENABLED (ExecPageExit(r) \/ MergeExit(r))

\* C14: a page whose audioPath is absent is fatal to the run: the clip command of
\* that page does not succeed, the run fails there, and neither the manifest nor
\* the concatenation follows.
C14_AbsentAudioIsFatal ==
    \A r \in active : \A k \in DOMAIN cmds[r] :
        (/\ cmds[r][k].cmd = "assemble"
         /\ contents[r][k].audioPath = Undefined
         /\ cmds[r][k].exit # "running")
        => /\ cmds[r][k].exit = "failed"
           /\ pc[r] = "failed" /\ failure[r] = "assembly"
           /\ ~ManifestWritten(r) /\ ~ConcatInvoked(r)

\* the clip command of a page of run r was rejected
AssemblyFailed(r) == pc[r] = "failed" /\ failure[r] = "assembly"

\* C15 as stated: when the transcoder command of a page fails, the error reported
\* to the caller of generateVideo is an AssemblyError that carries the page number
\* of the failing page and the diagnostic output of the process.
C15_AssemblyErrorReported ==
    \A r \in active :
        AssemblyFailed(r) =>
            LET k == Len(cmds[r])
                e == rejection[r].reported
            IN  /\ e.name = "AssemblyError"
                /\ e.page = contents[r][k].pageNumber
                /\ e.stderr = Stderr(cmds[r][k].line)

\* C15 amended: when the transcoder command of a page fails, generateVideo rejects
\* with the rejection of execPromise itself, unchanged: a plain Error, without a
\* page-number field, whose message is "Command failed: ", the command line and
\* the diagnostic output, and whose stderr is that output; the page shows only in
\* the command line, which ends with the clip path of the failing page.
C15_ExecRejectionPropagated ==
    \A r \in active :
        AssemblyFailed(r) =>
            LET k == Len(cmds[r])
                content == contents[r][k]
                line == "ffmpeg -loop 1 -i " \o PathStr(content.imagePath)
                          \o " -i " \o PathStr(content.audioPath)
                          \o " -c:v libx264 -tune stillimage -shortest -pix_fmt yuv420p -y "
                          \o PathStr(OutputVideo(videoUuid[r], content.pageNumber))
                e == rejection[r].reported
            IN  /\ e = rejection[r].thrown
                /\ e.name = "Error" /\ e.page = 0
                /\ e.stderr = Stderr(line)
                /\ e.message = "Command failed: " \o line \o "\n" \o Stderr(line)
                /\ rejection[r].page = content.pageNumber

C15_Witness ==
    \E r \in active :
        /\ AssemblyFailed(r) /\ Len(cmds[r]) = 2
        /\ rejection[r].reported.stderr # ""
        /\ contents[r][1].pageNumber # contents[r][2].pageNumber

\* the separators in a payload, and the part after the first one
Markers(data) == {i \in DOMAIN data : data[i] = MARKER}
AfterFirstMarker(data) ==
    LET i == CHOOSE j \in Markers(data) : \A k \in Markers(data) : j <= k
    IN  SubSeq(data, i + 1, Len(data))

\* C16: saveBase64ImageToFile decodes exactly the encoded body: for a payload
\* <header>;base64,<body> the header and the separator are stripped and only
\* <body> is decoded, also when <body> is empty; a payload without the separator
\* is decoded whole.
C16_OnlyBodyDecoded ==
    imageWrite = <<"resolved">> =>
        /\ Markers(base64Data) = {} =>
              files[ImageOutputPath] = BufferFromBase64(Flatten(base64Data))
        /\ Cardinality(Markers(base64Data)) = 1 =>
              files[ImageOutputPath] =
                  BufferFromBase64(Flatten(AfterFirstMarker(base64Data)))

\* the encoded text of a payload (what follows the first separator, or the whole
\* payload) is not base64: it has a character outside the alphabet
Malformed(data) ==
    LET body == IF Markers(data) = {} THEN data ELSE AfterFirstMarker(data)
    IN  \E c \in Range(Flatten(body)) : ~InAlphabet(c)

\* C17: for a payload that is malformed base64 the materialization fails with an
\* error and writes no image file.
C17_MalformedPayloadRejected ==
    (imageWrite # <<>> /\ Malformed(base64Data))
    => (imageWrite = <<"rejected">> /\ ImageOutputPath \notin DOMAIN files)

\* a collaborator threw inside LLMService.generateStory
GenerationFailed(r) == failure[r] = "generation"

\* C18 as stated: a failure of the text, image or audio generator is fatal and is
\* propagated as it is, with the failing page number attached:
\* LLMService.generateStory rejects with the collaborator's own error.
C18_CollaboratorErrorAsIs ==
    \A r \in active :
        GenerationFailed(r) =>
            LET e == rejection[r].reported
            IN  /\ pc[r] = "failed"
                /\ e.name = rejection[r].thrown.name
                /\ e.message = rejection[r].thrown.message
                /\ e.page = rejection[r].page

\* C18 amended: a failure of the text, image or audio generator is fatal: the run
\* ends there, before any directory or file is made, and
\* LLMService.generateStory rejects with a new plain Error whose message is
\* "Failed to generate story: " followed by the message of the collaborator's
\* error, or by "Unknown error" when the collaborator threw a value that is not an
\* Error; that Error carries no page number and not the collaborator's error.
C18_WrappedInNewError ==
    \A r \in active :
        GenerationFailed(r) =>
            LET thrown == rejection[r].thrown
            IN  /\ pc[r] = "failed"
                /\ storyUuid[r] = "none" /\ writesBy[r] = {}
                /\ rejection[r].reported =
                     [name |-> "Error",
                      message |-> "Failed to generate story: " \o
                                    (IF thrown.name # "" THEN thrown.message
                                                        ELSE "Unknown error"),
                      page |-> 0, stderr |-> ""]

C18_Witness ==
    \E r \in active :
        /\ GenerationFailed(r)
        /\ rejection[r].page = 2
        /\ rejection[r].thrown.name = "APICallError"
        /\ calls[r] = {"text", "image", "audio"}

\* C19: in non-interactive mode the output of the returned StoryParameters is the
\* path given with --output, and the current working directory only when no
\* --output was given.
C19_OutputOptionHonoured ==
    (storyParams # <<>> /\ ~options[1].interactive)
    => storyParams[1].output =
         (IF options[1].output # Undefined THEN options[1].output ELSE Cwd)

\* The stage a run is in, read off its position in VideoGenerator.generateVideo:
\* INIT until the output and the temporary folder are made, WORKSPACE_READY at the
\* top of the page loop before its first iteration, PER_PAGE from the first clip
\* command until the manifest is written, MANIFEST_BUILT until the concat command
\* has exited; generateVideo returns in the step in which the concat command exits
\* with success, so CONCATENATED is passed inside that step and the run is DONE.
StageOf(r) ==
    CASE pc[r] \in {"failed", "crashed"} -> "FAILED"
      [] pc[r] = "done" -> "DONE"
      [] pc[r] \in {"merge", "mergeExec"} -> "MANIFEST_BUILT"
      [] pc[r] \in {"pageExec", "writeManifest"} -> "PER_PAGE"
      [] pc[r] = "pageLoop" -> IF vidIdx[r] = 1 THEN "WORKSPACE_READY" ELSE "PER_PAGE"
      [] OTHER -> "INIT"

StageOrder == <<"INIT", "WORKSPACE_READY", "PER_PAGE", "MANIFEST_BUILT", "DONE">>
\* a step from stage s to stage t follows the order
StageStep(s, t) ==
    \/ t = s
    \/ s \notin {"DONE", "FAILED"} /\ t = "FAILED"
    \/ \E k \in 1..(Len(StageOrder) - 1) : s = StageOrder[k] /\ t = StageOrder[k + 1]

\* the clip command of every page of the story has exited with success, one
\* command per page, in the order of story.contents
EveryPageAssembled(r) ==
    /\ Len(contents[r]) >= 1 /\ Len(cmds[r]) >= Len(contents[r])
    /\ \A i \in 1..Len(contents[r]) :
          /\ cmds[r][i].cmd = "assemble" /\ cmds[r][i].exit = "ok"
          /\ cmds[r][i].page = contents[r][i].pageNumber

PageFilesBegun(r) ==
    \/ imgIdx[r] > 1
    \/ DOMAIN writers[r] # {}
    \/ \E p \in writesBy[r] :
          p \in DOMAIN files /\ Under(<<"tmp", "genie-tales">>, p)

\* C21: workspace creation is a strict prerequisite of page work: no image or
\* audio file is written before both directories of generateArtifactDirs exist,
\* and no transcoder command is started before the temporary clip folder and the
\* output directory exist.
C21_WorkspaceBeforePageWork ==
    \A r \in active :
        /\ PageFilesBegun(r) =>
              /\ storyUuid[r] # "none"
              /\ {ImageDir(storyUuid[r]), AudioDir(storyUuid[r])} \subseteq dirs
        /\ cmds[r] # <<>> =>
              /\ videoUuid[r] # "none"
              /\ {OutputFolder, TmpFolder(videoUuid[r])} \subseteq dirs
        /\ \A p \in DOMAIN files :
              p \in writesBy[r] => SubSeq(p, 1, Len(p) - 1) \in dirs

C21_Witness ==
    \E r \in active :
        /\ pc[r] = "pageExec" /\ cmds[r] # <<>>
        /\ imgIdx[r] > 1 /\ DOMAIN writers[r] # {}
        /\ \E i \in DOMAIN writers[r] : writers[r][i].st = "finished"

\* the commands of run r whose process has not exited
InFlight(r) == {k \in DOMAIN cmds[r] : cmds[r][k].exit = "running"}

\* C22: within one run at most one external process is in flight at any moment,
\* and the process of the next page is started only after the process of the
\* previous page has exited; the pages are taken in the order of story.contents.
C22_OneProcessAtATime ==
    \A r \in active :
        /\ Cardinality(InFlight(r)) <= 1
        /\ \A k \in InFlight(r) : k = Len(cmds[r])
        /\ (proc[r] # "none") <=> (InFlight(r) # {})
        /\ \A k \in DOMAIN cmds[r] :
              cmds[r][k].cmd = "assemble" =>
                  /\ k <= Len(contents[r])
                  /\ cmds[r][k].page = contents[r][k].pageNumber

C22_Witness ==
    \E r \in active :
        /\ Len(cmds[r]) = 2 /\ InFlight(r) = {2}
        /\ cmds[r][1].cmd = "assemble" /\ cmds[r][1].exit = "ok"
        /\ cmds[r][2].cmd = "assemble"

\* the concat command of run r, if it was started
ConcatCommands(r) == {k \in DOMAIN cmds[r] : cmds[r][k].cmd = "concat"}

\* C23: the concatenation step removes a file that stands at the destination
\* before ffmpeg writes the output, so that whatever ffmpeg wrote is all the
\* destination holds; and the step can succeed alike with and without a file at
\* the destination.
C23_DestinationReplaced ==
    \A r \in active :
        /\ pc[r] = "mergeExec" => ENABLED (MergeExit(r) /\ pc'[r] = "done")
        /\ WroteFinal(r) =>
              /\ FinalVideo \in DOMAIN files
              /\ files[FinalVideo] \in
                    {ConcatBytes(Directives(ManifestOf(r))), Partial}
        /\ ConcatSucceeded(r) =>
              files[FinalVideo] = ConcatBytes(Directives(ManifestOf(r)))

C23_Witness ==
    /\ \E r \in active : \E k \in ConcatCommands(r) :
          cmds[r][k].found /\ cmds[r][k].exit = "ok" /\ pc[r] = "done"
    /\ files[FinalVideo] # <<"old">>

\* generateStory of run r has returned its Story
StoryReturned(r) == pc[r] = "videoCtor"

\* C24: artifacts go with pages by page number, not by array position: in the
\* Story that generateStory returns, the imagePath (audioPath) of a page is the
\* path written for the image (audio) responses that carry the page's number,
\* whatever the order of the response arrays, and it is absent exactly when no
\* response carries that number.
C24_KeyedByPageNumber ==
    \A r \in active :
        StoryReturned(r) =>
            /\ Len(contents[r]) = NPages(r)
            /\ \A i \in 1..NPages(r) :
                  LET n == Pages(r)[i]
                      content == contents[r][i]
                      images == {j \in DOMAIN llmImages[r] : llmImages[r][j] = n}
                      audios == {j \in DOMAIN llmAudios[r] : llmAudios[r][j] = n}
                  IN  /\ content.pageNumber = n
                      /\ content.imagePath = Undefined <=> images = {}
                      /\ content.audioPath = Undefined <=> audios = {}
                      /\ images # {} =>
                            /\ content.imagePath =
                                 <<"tmp", "genie-tales", storyUuid[r], "images",
                                   ToString(n) \o ".png">>
                            /\ \E j \in images :
                                  files[content.imagePath] = ImageBytes(r, j)
                      /\ audios # {} =>
                            /\ content.audioPath =
                                 <<"tmp", "genie-tales", storyUuid[r], "audios",
                                   ToString(n) \o ".mp3">>
                            /\ \E j \in audios : WriterPath(r, j) = content.audioPath

C24_Witness ==
    \E r \in active :
        /\ StoryReturned(r) /\ NPages(r) = 2
        /\ llmImages[r] = <<2, 1>> /\ llmAudios[r] = <<2>>
        /\ contents[r][1].audioPath = Undefined
        /\ contents[r][2].audioPath # Undefined

\* the directory that run r is about to make
MkdirTarget(r) ==
    CASE pc[r] = "mkdirAudios" -> AudioDir(storyUuid[r])
      [] pc[r] = "ensureDir" -> OutputFolder
      [] pc[r] = "mkdirTmp" -> TmpFolder(videoUuid[r])
      [] OTHER -> TmpDir

\* run r makes the directory: its call resolves, the directory is there, and
\* nothing that was there is lost
MkdirSucceeds(r) ==
    CASE pc[r] = "mkdirImages" ->
            MkdirImages(r) /\ pc'[r] = "mkdirAudios" /\ dirs \subseteq dirs'
                           /\ ImageDir(storyUuid'[r]) \in dirs'
      [] pc[r] = "mkdirAudios" ->
            MkdirAudios(r) /\ pc'[r] # "failed" /\ dirs \subseteq dirs'
                           /\ MkdirTarget(r) \in dirs'
      [] pc[r] = "ensureDir" ->
            EnsureOutputDir(r) /\ pc'[r] = "mkdirTmp" /\ dirs \subseteq dirs'
                               /\ MkdirTarget(r) \in dirs'
      [] pc[r] = "mkdirTmp" ->
            MkdirTmp(r) /\ pc'[r] = "pageLoop" /\ dirs \subseteq dirs'
                        /\ MkdirTarget(r) \in dirs'
      [] OTHER -> FALSE

AtMkdir(r) ==
    r \in active /\ pc[r] \in {"mkdirImages", "mkdirAudios", "ensureDir", "mkdirTmp"}

LanguageModelCalled == languageModel # <<>>
ImageModelCalled == imageModel # <<>>
NameUnset(modelName) == modelName \in {Unset, ""}

\* C26: provider selection returns a model of the configured provider or throws:
\* a language model that is returned is the OpenAI generator's exactly when
\* STORY_LLM_PROVIDER is OPENAI and the Anthropic generator's exactly when it is
\* ANTHROPIC; an image model is returned only for ILLUSTRATION_LLM_PROVIDER =
\* OPENAI; with any other provider value or with no model name the call throws;
\* with a supported provider, a model name and the provider's key it returns.
C26_ProviderSelected ==
    /\ LanguageModelCalled =>
         LET result == languageModel[1]
             provider == env[1].STORY_LLM_PROVIDER
             modelName == env[1].STORY_LLM_MODEL_NAME
         IN  /\ IsModel(result) =>
                   /\ result.kind = "language" /\ result.modelId = modelName
                   /\ result.provider = "OPENAI" <=> provider = "OPENAI"
                   /\ result.provider = "ANTHROPIC" <=> provider = "ANTHROPIC"
                   /\ result.provider \in {"OPENAI", "ANTHROPIC"}
             /\ (provider \notin {"OPENAI", "ANTHROPIC"} \/ NameUnset(modelName))
                   => IsError(result)
             /\ (provider \in {"OPENAI", "ANTHROPIC"} /\ ~NameUnset(modelName)
                  /\ (IF provider = "OPENAI" THEN env[1].OPENAI_KEY
                                              ELSE env[1].ANTHROPIC_KEY) # Unset)
                   => IsModel(result)
    /\ ImageModelCalled =>
         LET result == imageModel[1]
             provider == env[1].ILLUSTRATION_LLM_PROVIDER
             modelName == env[1].ILLUSTRATION_LLM_MODEL_NAME
         IN  /\ IsModel(result) =>
                   /\ result.kind = "image" /\ result.modelId = modelName
                   /\ result.provider = "OPENAI" /\ provider = "OPENAI"
             /\ (provider # "OPENAI" \/ NameUnset(modelName)) => IsError(result)
             /\ (provider = "OPENAI" /\ ~NameUnset(modelName) /\ env[1].OPENAI_KEY # Unset)
                   => IsModel(result)

\* an Anthropic language model and an OpenAI image model were returned
C26_Witness ==
    /\ LanguageModelCalled /\ ImageModelCalled
    /\ IsModel(languageModel[1]) /\ languageModel[1].provider = "ANTHROPIC"
    /\ IsModel(imageModel[1]) /\ imageModel[1].provider = "OPENAI"

\* what the action of the generate command has done, read off its position
\* videoSpinner.succeed(...), which follows the await of generateVideo
VideoSuccessEmitted(r) == pc[r] = "done"
\* process.exit(1) of the catch block
ExitedWithOne(r) == pc[r] = "failed"
\* generateStory has returned its Story
GenerateStoryResolved(r) ==
    /\ calls[r] = CallsUpTo(Len(Collaborators))
    /\ Len(contents[r]) = NPages(r)
\* the last command of generateVideo, the concatenation, has exited with success
GenerateVideoResolved(r) ==
    /\ cmds[r] # <<>>
    /\ cmds[r][Len(cmds[r])].cmd = "concat"
    /\ cmds[r][Len(cmds[r])].exit = "ok"
InVideoGeneration(r) ==
    pc[r] \in {"ensureDir", "mkdirTmp", "pageLoop", "pageExec", "writeManifest",
               "merge", "mergeExec", "done"}
\* what a later step of run r would change
Progress(r) ==
    <<pc[r], calls[r], storyUuid[r], videoUuid[r], imageMap[r], audioMap[r], writers[r],
      contents[r], fileListContents[r], cmds[r], proc[r], writesBy[r], files, dirs>>

\* C27: in the generate command the success message of the video is emitted only
\* after generateVideo has resolved, and generateVideo is entered (so resolves)
\* only after generateStory has resolved; when the parameter collection, the
\* story generation or the video generation rejects, the process exits with
\* code 1 (no success message, no later step: nothing of the run changes any
\* more), and what the later stages would have done has not been done.
C27_StepsInOrderOrExit ==
    \A r \in active :
        /\ VideoSuccessEmitted(r) => GenerateVideoResolved(r) /\ failure[r] = "none"
        /\ InVideoGeneration(r) \/ cmds[r] # <<>> => GenerateStoryResolved(r)
        /\ failure[r] # "none" =>
              /\ ExitedWithOne(r) /\ ~VideoSuccessEmitted(r)
              /\ ~ENABLED (NextGenerate /\ Progress(r)' # Progress(r))
        /\ failure[r] = "parameters" =>
              calls[r] = {} /\ contents[r] = <<>> /\ cmds[r] = <<>>
        /\ failure[r] \in {"generation", "workspace", "image"} /\ ~GenerateStoryResolved(r) =>
              cmds[r] = <<>> /\ videoUuid[r] = "none"
        /\ failure[r] \in {"assembly", "manifest", "concat"} =>
              GenerateStoryResolved(r) /\ ~GenerateVideoResolved(r)

\* the video's success message has been emitted
C27_Witness ==
    \E r \in active :
        /\ VideoSuccessEmitted(r) /\ GenerateVideoResolved(r)
        /\ GenerateStoryResolved(r) /\ NPages(r) = 2

\* the write streams of run r that write the audio file of page p
WritersOfPage(r, p) == {i \in DOMAIN writers[r] : llmAudios[r][i] = p}
AudioWritten(r, i) ==
    /\ writers[r][i].st = "finished"
    /\ WriterPath(r, i) \in DOMAIN files
    /\ files[WriterPath(r, i)] = AudioBytes(r, i)

\* C28: the audio file of a page is completely written ('finish' emitted, every
\* chunk in the file) when generateStory returns and when the transcoder of the
\* page's clip is started or running.
C28_AudioWrittenBeforeAssembly ==
    \A r \in active :
        /\ StoryReturned(r) => \A i \in DOMAIN writers[r] : AudioWritten(r, i)
        /\ \A k \in DOMAIN cmds[r] :
              (cmds[r][k].cmd = "assemble" /\ cmds[r][k].exit = "running") =>
                  \A i \in WritersOfPage(r, cmds[r][k].page) : AudioWritten(r, i)

\* what stands at the destination path: nothing, or the bytes of the file
Destination(fs) == IF FinalVideo \in DOMAIN fs THEN <<fs[FinalVideo]>> ELSE <<>>
\* the concatenation command of some run is in flight
ConcatRunning ==
    \E r \in active :
        /\ pc[r] = "mergeExec" /\ cmds[r] # <<>>
        /\ cmds[r][Len(cmds[r])].cmd = "concat"
        /\ cmds[r][Len(cmds[r])].exit = "running"
FailedBeforeConcat(r) ==
    /\ pc[r] = "failed" /\ ~ConcatInvoked(r)
    /\ failure[r] \in {"workspace", "assembly", "manifest"}

\* C29: the destination is touched by the concatenation command only: a step
\* changes what stands at the destination path only when it is the exit of a
\* concatenation command, so a file that stood there before the run is unchanged
\* after every run that has failed in the directory creation, in a page's clip
\* assembly or in the manifest write.
C29_DestinationOnlyByConcat ==
    /\ [](\A r \in active :
            ~ConcatInvoked(r) =>
                /\ ~WroteFinal(r)
                /\ Destination(files) \in {<<>>, <<(<<"old">>)>>})
    /\ [][Destination(files') # Destination(files) => ConcatRunning]_vars

\* the run has failed in the manifest write and the earlier file is there
C29_Witness ==
    \E r \in active :
        /\ FailedBeforeConcat(r) /\ failure[r] = "manifest"
        /\ Destination(files) = <<(<<"old">>)>>

\* C30: loading the logger module never fails because of the logs directory: in
\* every interleaving of two processes that load it in the same working
\* directory, no load throws because the directory exists.
C30_LoggerLoads ==
    loader # <<>> =>
        \A p \in DOMAIN loader :
            ~(loader[p].pc = "threw" /\ loader[p].error.message = "EEXIST")

====
